---- MODULE Spec2Model ----
(***************************************************************************)
(* Face Identity Annotation Tool (app.py): the annotation session of one   *)
(* browser session against the shared Google Sheets ledger.                *)
(*                                                                         *)
(* Streamlit re-runs main() on every interaction.  One action of the model *)
(* is one interaction: the handler of the button that was pressed, then    *)
(* the script run(s) that st.rerun() triggers, with the writes those runs  *)
(* make to st.session_state (Main).                                        *)
(*                                                                         *)
(* Text is a sequence of one-character strings, so that len() and strip()  *)
(* are computed.  An optional value (None, or a key that is not in         *)
(* st.session_state) is None == <<>>, a present value x is Some(x).        *)
(* The timestamp column of a ledger row is not modelled.                   *)
(***************************************************************************)
EXTENDS Integers, Sequences, FiniteSets, TLC

VARIABLES
    pairs_df,            \* the catalog load_pairs() returned (immutable)
    sheet,               \* get_google_sheet()'s cached result: "None" or "Worksheet"
    sheet_rows,          \* the records of the worksheet, in append order
    session_state,       \* st.session_state: the keys main() and the pages set
    decision_widget,     \* radio decision_{current_pair}
    explanation_widget,  \* text_area explanation_{current_pair}
    followup_widget,     \* text_area followup_reflect_{current_pair}
    mode_widget,         \* the mode the radio "Select mode" on the page was drawn for
    review,              \* the review browser's keys of st.session_state and widgets
    connect,             \* the worksheet's rows as stored, and each server process's
                         \* position in get_google_sheet()
    last,                \* the last interaction and what the page answered
    hist                 \* history: what this browser session has done so far

vars == <<pairs_df, sheet, sheet_rows, session_state, decision_widget,
          explanation_widget, followup_widget, mode_widget, review, connect, last,
          hist>>

----------------------------------------------------------------------------
(* Configuration *)

MIN_NAME_LENGTH == 5

MIN_EXPLANATION_LENGTH == 20

\* The worksheet accepts this many appends of one browser session; a further
\* append_row raises.
MaxAppends == 2

\* Other browser sessions append at most this many rows to the worksheet.
MaxOtherAppends == 1

\* The review browser's flag list holds at most this many flags.
MaxFlags == 2

\* This many server processes run the application against the same worksheet.
MaxProcesses == 3

None == <<>>

Some(x) == <<x>>

Get(m) == m[1]

SUPER_USERS == { <<"v", "e", "n", "u", "s">> }

----------------------------------------------------------------------------
(* Python's str: len, strip, lower *)

\* A text is a sequence of characters, each a one-character string; a
\* character that a string of this language cannot hold (a control character
\* without an escape, a character above U+007F) is written by its code
\* point's name: "U+3000" is the one character IDEOGRAPHIC SPACE.
\*
\* the characters str.strip() removes, which are those with str.isspace():
\* U+0009 to U+000D, U+001C to U+001F, U+0020, U+0085, U+00A0, U+1680,
\* U+2000 to U+200A, U+2028, U+2029, U+202F, U+205F and U+3000
Whitespace ==
    {"\t", "\n", "U+000B", "\f", "\r",
     "U+001C", "U+001D", "U+001E", "U+001F", " ",
     "U+0085", "U+00A0", "U+1680",
     "U+2000", "U+2001", "U+2002", "U+2003", "U+2004", "U+2005", "U+2006",
     "U+2007", "U+2008", "U+2009", "U+200A",
     "U+2028", "U+2029", "U+202F", "U+205F", "U+3000"}

RECURSIVE LStrip(_)
LStrip(s) ==
    IF s = <<>> THEN s
    ELSE IF Head(s) \in Whitespace THEN LStrip(Tail(s)) ELSE s

RECURSIVE RStrip(_)
RStrip(s) ==
    IF s = <<>> THEN s
    ELSE IF s[Len(s)] \in Whitespace THEN RStrip(SubSeq(s, 1, Len(s) - 1)) ELSE s

\* variant: the length check without strip()
Strip_untrimmed(s) == s

Strip(s) == RStrip(LStrip(s))

\* variant: the label compared as stored
Lower_identity(label) == label

\* str(ground_truth).lower() on the labels the catalogs hold
Lower(label) ==
    CASE label \in {"SAME", "Same", "same"} -> "same"
      [] label \in {"DIFFERENT", "Different", "different"} -> "different"
      [] OTHER -> label

Rep(c, n) == [i \in 1..n |-> c]

----------------------------------------------------------------------------
(* Inputs: what the annotator can type *)

Alice == <<"a", "l", "i", "c", "e">>

Bobby == <<"b", "o", "b", "b", "y">>

Venus == <<"v", "e", "n", "u", "s">>

\* " alice " strips to a name of exactly MIN_NAME_LENGTH characters;
\* "bob" followed by a space and a carriage return has MIN_NAME_LENGTH
\* characters, but strips to 3.
NameInputs ==
    { <<" ">> \o Alice \o <<" ">>, Venus,
      <<"b", "o", "b", " ", "\r">>, <<>> }

EmptyText == <<>>

\* strips to one character less than the minimum (its raw length is above it)
ShortText == <<" ">> \o Rep("x", MIN_EXPLANATION_LENGTH - 1) \o <<"\r", "U+3000">>

\* strips to exactly the minimum
ExactText == <<" ">> \o Rep("x", MIN_EXPLANATION_LENGTH - 2) \o <<" ", "y", " ">>

Texts == {EmptyText, ShortText, ExactText}

Decisions == {"same", "different"}

----------------------------------------------------------------------------
(* The catalog: pairs.csv as load_pairs() returns it *)

Pair(i, a, b, gt, celeb) ==
    [index |-> i, A |-> a, B |-> b, ground_truth |-> gt, celeb_id |-> celeb]

FileA(i) == <<"l", "f", "w", "_", "a", ToString(i)>>

FileB(i) == <<"l", "f", "w", "_", "b", ToString(i)>>

\* the pairs of Scenario A of the specification, with the rows out of index
\* order and a label in mixed case
CatalogA == << Pair(2, FileA(2), FileB(2), "DIFFERENT", "c2"),
               Pair(1, FileA(1), FileB(1), "Same", "c1") >>

\* one pair, whose label is outside the enum
CatalogB == << Pair(1, FileA(1), FileB(1), "maybe", "c1") >>

\* one pair
CatalogC == << Pair(2, FileA(2), FileB(2), "same", "c2") >>

CatalogEmpty == << >>

Catalogs == {CatalogA, CatalogB, CatalogC, CatalogEmpty}

\* pairs_df['index'].tolist()
IndexList(df) == [k \in 1..Len(df) |-> df[k].index]

\* set(pairs_df["index"].tolist())
valid_indices(df) == { df[k].index : k \in 1..Len(df) }

\* pairs_df[pairs_df['index'] == i].iloc[0]
PairRow(df, i) ==
    df[CHOOSE k \in 1..Len(df) :
          /\ df[k].index = i
          /\ \A j \in 1..(k - 1) : df[j].index # i]

----------------------------------------------------------------------------
(* The ledger: the worksheet's records as sheet.get_all_records() returns  *)
(* them.  A pair_index cell is [kind, v]: an integer, a float (v in        *)
(* tenths), text that int() parses, other text, or a blank; a record of a  *)
(* sheet without that column has no pair_index key.                        *)

IntCell(n) == [kind |-> "int", v |-> n]

FloatCell(tenths) == [kind |-> "float", v |-> tenths]

NumTextCell(n) == [kind |-> "numeric_text", v |-> n]

TextCell == [kind |-> "text", v |-> 0]

BlankCell == [kind |-> "blank", v |-> 0]

OldRow(aid, cell) ==
    [annotator_id |-> aid, pair_index |-> cell, image_a |-> FileA(0),
     image_b |-> FileB(0), ground_truth |-> "same", celeb_id |-> "c0",
     human_decision |-> "same", initial_explanation |-> ExactText,
     is_correct |-> TRUE, followup_explanation |-> EmptyText]

NoIndexRow(aid) ==
    [annotator_id |-> aid, image_a |-> FileA(0),
     image_b |-> FileB(0), ground_truth |-> "same", celeb_id |-> "c0",
     human_decision |-> "same", initial_explanation |-> ExactText,
     is_correct |-> TRUE, followup_explanation |-> EmptyText]

LedgerEmpty == << >>

\* alice finished pair 1 on another device (Scenario D); bobby, who does not
\* log in here, finished pair 2; 99 is no longer in any catalog; the other
\* cells were edited by hand ("abc", "2", 1.7, "").
LedgerUsed ==
    << OldRow(Alice, IntCell(1)),
       OldRow(Bobby, IntCell(2)),
       OldRow(Alice, TextCell),
       OldRow(Alice, IntCell(99)),
       OldRow(Venus, IntCell(99)),
       NoIndexRow(Alice),
       OldRow(Venus, NumTextCell(2)),
       OldRow(Venus, FloatCell(17)),
       OldRow(Venus, BlankCell) >>

InitialLedgers == {LedgerEmpty, LedgerUsed}

\* int(x): Some(n), or None when it raises ValueError or TypeError
PyInt(cell) ==
    CASE cell.kind = "int" -> Some(cell.v)
      [] cell.kind = "numeric_text" -> Some(cell.v)
      [] cell.kind = "float" ->
            Some(IF cell.v >= 0 THEN cell.v \div 10 ELSE -((-cell.v) \div 10))
      [] OTHER -> None

\* variant: the loop without the annotator_id test of line 123
CompletedLoop_any_annotator(records, annotator_id) ==
    LET Step[k \in 0..Len(records)] ==
            IF k = 0 THEN <<>>
            ELSE IF "pair_index" \in DOMAIN records[k]
                    /\ PyInt(records[k].pair_index) # None
                 THEN Append(Step[k - 1], Get(PyInt(records[k].pair_index)))
                 ELSE Step[k - 1]
    IN Step[Len(records)]

\* the loop of get_completed_pairs over the records
CompletedLoop(records, annotator_id) ==
    LET Step[k \in 0..Len(records)] ==
            IF k = 0 THEN <<>>
            ELSE LET r == records[k] IN
                 IF "annotator_id" \in DOMAIN r /\ r.annotator_id = annotator_id
                 THEN IF "pair_index" \in DOMAIN r
                         /\ PyInt(r.pair_index) # None
                      THEN Append(Step[k - 1], Get(PyInt(r.pair_index)))
                      ELSE Step[k - 1]
                 ELSE Step[k - 1]
    IN Step[Len(records)]

\* get_completed_pairs(sheet, annotator_id); query_ok is FALSE when
\* sheet.get_all_records() raises
get_completed_pairs(sh, records, annotator_id, query_ok) ==
    IF sh = "None" \/ annotator_id = None THEN <<>>
    ELSE IF ~query_ok THEN <<>>
    ELSE CompletedLoop(records, Get(annotator_id))

\* set(list)
ToSet(s) == { s[k] : k \in 1..Len(s) }

\* variant: save_annotation returning True on every path
save_annotation_ignores_failure(sh, records, annotation_data, append_ok) ==
    IF sh = "None" \/ ~append_ok THEN [saved |-> TRUE, rows |-> records]
    ELSE [saved |-> TRUE, rows |-> Append(records, annotation_data)]

\* variant: save_annotation without the sheet is None test of line 90
save_annotation_without_sheet_test(sh, records, annotation_data, append_ok) ==
    IF ~append_ok THEN [saved |-> FALSE, rows |-> records]
    ELSE [saved |-> TRUE,
          rows |-> IF sh = "None" THEN records ELSE Append(records, annotation_data)]

\* save_annotation(sheet, annotation_data): whether it returned True, and
\* the worksheet afterwards; append_ok is FALSE when sheet.append_row raises
save_annotation(sh, records, annotation_data, append_ok) ==
    IF sh = "None" THEN [saved |-> FALSE, rows |-> records]
    ELSE IF ~append_ok THEN [saved |-> FALSE, rows |-> records]
    ELSE [saved |-> TRUE, rows |-> Append(records, annotation_data)]

----------------------------------------------------------------------------
(* st.session_state.  The keys is_correct, ground_truth, decision,         *)
(* initial_explanation and pair_data are written together (lines 725-730)  *)
(* and are the record in `snapshot`; None before the first such write.     *)

\* variant: remaining without the completed filter
remaining_unfiltered(df, completed) == [k \in 1..Len(df) |-> df[k].index]

\* remaining = [i for i in all_pairs if i not in completed]
remaining(df, completed) ==
    SelectSeq(IndexList(df), LAMBDA i : i \notin completed)

\* variant: the cache rebuilt empty on every run
ensure_local_progress_initialized_resets(ss, df, sh, records, query_ok) ==
    [ss EXCEPT !.completed_local = Some({})]

\* variant: the ledger read on every run, cache or not
ensure_local_progress_initialized_requeries(ss, df, sh, records, query_ok) ==
    LET initial ==
            IF ss.annotator_id # None /\ sh # "None"
            THEN ToSet(get_completed_pairs(sh, records, ss.annotator_id, query_ok))
            ELSE {}
    IN [ss EXCEPT !.completed_local =
                      Some({ i \in initial : i \in valid_indices(df) })]

\* variant: the cache initialised as in lines 180-185, without the filter of
\* lines 188-191
ensure_local_progress_initialized_unfiltered(ss, df, sh, records, query_ok) ==
    LET initial ==
            IF ss.completed_local = None
            THEN IF ss.annotator_id # None /\ sh # "None"
                 THEN ToSet(get_completed_pairs(sh, records, ss.annotator_id, query_ok))
                 ELSE {}
            ELSE Get(ss.completed_local)
    IN [ss EXCEPT !.completed_local = Some(initial)]

\* ensure_local_progress_initialized(sheet, pairs_df)
ensure_local_progress_initialized(ss, df, sh, records, query_ok) ==
    LET initial ==
            IF ss.completed_local = None
            THEN IF ss.annotator_id # None /\ sh # "None"
                 THEN ToSet(get_completed_pairs(sh, records, ss.annotator_id, query_ok))
                 ELSE {}
            ELSE Get(ss.completed_local)
    IN [ss EXCEPT !.completed_local =
                      Some({ i \in initial : i \in valid_indices(df) })]

\* the page main() routes to, and within the annotation page the branch taken
Screen(ss, df) ==
    IF ss.show_instructions \/ ss.annotator_id = None THEN "INSTRUCTIONS"
    ELSE IF ss.is_super /\ ss.mode = "review" THEN "SUPER_REVIEW"
    ELSE IF ss.completed_local = None THEN "UNINITIALIZED"
    ELSE IF remaining(df, Get(ss.completed_local)) = <<>> THEN "ALL_COMPLETE"
    ELSE IF ss.submitted THEN "REVIEWING_INCORRECT"
    ELSE "ANNOTATING"

\* variant: the progress cache reconciled before the page is chosen
Main_reconciles_before_routing(ss, df, sh, records, query_ok) ==
    IF ss.annotator_id = None
    THEN [ss EXCEPT !.show_instructions = TRUE]
    ELSE LET s1 == ensure_local_progress_initialized(ss, df, sh, records, query_ok) IN
         IF /\ ~s1.show_instructions
            /\ ~(s1.is_super /\ s1.mode = "review")
            /\ remaining(df, Get(s1.completed_local)) # <<>>
            /\ s1.submitted
            /\ s1.snapshot # None
            /\ Get(s1.snapshot).is_correct
         THEN [s1 EXCEPT !.submitted = FALSE]
         ELSE s1

\* what one run of main() writes to st.session_state, followed by the run
\* its own st.rerun() triggers (lines 870-872, 740-742)
Main(ss, df, sh, records, query_ok) ==
    IF ss.show_instructions
    THEN IF ss.annotator_id # None
         THEN ensure_local_progress_initialized(ss, df, sh, records, query_ok)
         ELSE ss
    ELSE IF ss.annotator_id = None
    THEN [ss EXCEPT !.show_instructions = TRUE]
    ELSE IF ss.is_super /\ ss.mode = "review"
    THEN ss
    ELSE LET s1 == ensure_local_progress_initialized(ss, df, sh, records, query_ok) IN
         IF /\ remaining(df, Get(s1.completed_local)) # <<>>
            /\ s1.submitted
            /\ s1.snapshot # None
            /\ Get(s1.snapshot).is_correct
         THEN [s1 EXCEPT !.submitted = FALSE]
         ELSE s1

\* whether that run reads the ledger (line 182)
MainQueries(ss, sh) ==
    /\ ss.completed_local = None
    /\ ss.annotator_id # None
    /\ sh # "None"
    /\ (ss.show_instructions \/ ~(ss.is_super /\ ss.mode = "review"))

OnForm(ss, df) == Screen(ss, df) \in {"ANNOTATING", "REVIEWING_INCORRECT"}

\* The radio "Select mode" (lines 879-883) that a run of main() over ss
\* leaves on the page: None when the run draws none (the instructions page,
\* an ordinary annotator), else the mode its index parameter was computed
\* from.  The radio has no key, so it is identified by its parameters, the
\* index among them: the radio of another index is another widget.
ModeRadio(ss) ==
    IF ~ss.show_instructions /\ ss.annotator_id # None /\ ss.is_super
    THEN Some(ss.mode) ELSE None

\* variant: the lowest remaining index instead of the first
current_pair_lowest(ss, df) ==
    LET rem == remaining(df, Get(ss.completed_local)) IN
    CHOOSE i \in ToSet(rem) : \A j \in ToSet(rem) : i <= j

\* current_pair = remaining[0]
current_pair(ss, df) == Head(remaining(df, Get(ss.completed_local)))

State == session_state

completedSet == IF State.completed_local = None THEN {} ELSE Get(State.completed_local)

CurrentScreen == Screen(State, pairs_df)

----------------------------------------------------------------------------
(* The review browser's state (show_super_review_interface): the keys      *)
(* super_flags and super_pos of st.session_state (None while absent), and  *)
(* the widgets of the page: the two multiselects, the search box and the   *)
(* note of the displayed pair (key note_{pair_index}).                     *)

CelebaPrefix == <<"c", "e", "l", "e", "b", "a", "_">>

CasiaPrefix == <<"c", "a", "s", "i", "a", "_">>

Vggface2Prefix == <<"v", "g", "g", "f", "a", "c", "e", "2", "_">>

LfwPrefix == <<"l", "f", "w", "_">>

\* filename.startswith(prefix)
StartsWith(filename, prefix) ==
    /\ Len(filename) >= Len(prefix)
    /\ SubSeq(filename, 1, Len(prefix)) = prefix

\* infer_dataset_prefix(filename), on a filename that is a str
infer_dataset_prefix(filename) ==
    IF StartsWith(filename, CelebaPrefix) THEN "celeba"
    ELSE IF StartsWith(filename, CasiaPrefix) THEN "casia"
    ELSE IF StartsWith(filename, Vggface2Prefix) THEN "vggface2"
    ELSE IF StartsWith(filename, LfwPrefix) THEN "lfw"
    ELSE "other"

\* the catalog of the review runs: two data sets, rows out of index order
CatalogR == << Pair(4, CelebaPrefix \o <<"a", "4">>, CelebaPrefix \o <<"b", "4">>,
                    "Same", "c4"),
               Pair(1, FileA(1), FileB(1), "different", "c1") >>

\* pairs_df["dataset"].unique()
DatasetOptions(df) == { infer_dataset_prefix(df[k].A) : k \in 1..Len(df) }

\* pairs_df["ground_truth"].astype(str).str.lower().unique()
GtOptions(df) == { Lower(df[k].ground_truth) : k \in 1..Len(df) }

\* str.lower() of one character, on the characters of the search inputs
LowerChar(c) ==
    CASE c = "A" -> "a"
      [] c = "B" -> "b"
      [] c = "L" -> "l"
      [] OTHER -> c

LowerText(s) == [k \in 1..Len(s) |-> LowerChar(s[k])]

\* str.contains(search_text, case=False), for a search_text without regular
\* expression metacharacters
Contains(s, sub) ==
    \E k \in 0..(Len(s) - Len(sub)) :
        SubSeq(LowerText(s), k + 1, k + Len(sub)) = LowerText(sub)

\* what the annotator can type in the search box and in the note
SearchInputs == { <<>>, <<" ", "A", "4">> }

Notes == { <<>>, <<"n">> }

\* sort_values("index")
RECURSIVE SortByIndex(_)
SortByIndex(rows) ==
    IF rows = <<>> THEN <<>>
    ELSE LET lowest == CHOOSE k \in 1..Len(rows) :
                          \A j \in 1..Len(rows) :
                              \/ rows[k].index < rows[j].index
                              \/ (rows[k].index = rows[j].index /\ k <= j)
             rest == [j \in 1..(Len(rows) - 1) |->
                         IF j < lowest THEN rows[j] ELSE rows[j + 1]]
         IN <<rows[lowest]>> \o SortByIndex(rest)

\* view_df (lines 399-411)
view_df(rv, df) ==
    LET lowered == [k \in 1..Len(df) |->
                       [df[k] EXCEPT !.ground_truth = Lower(df[k].ground_truth)]]
        kept(r) == /\ infer_dataset_prefix(r.A) \in rv.dataset_filter
                   /\ r.ground_truth \in rv.gt_filter
                   /\ \/ rv.search_text = <<>>
                      \/ Contains(r.A, rv.search_text)
                      \/ Contains(r.B, rv.search_text)
    IN SortByIndex(SelectSeq(lowered, kept))

\* the keys before the page was ever drawn, the widgets at their defaults
ReviewAbsent(df) ==
    [super_flags |-> None, super_pos |-> None,
     dataset_filter |-> DatasetOptions(df), gt_filter |-> GtOptions(df),
     search_text |-> <<>>, note |-> <<>>]

\* min(max(st.session_state.super_pos, 0), max_pos)
Clamp(pos, max_pos) ==
    LET low == IF pos > 0 THEN pos ELSE 0 IN
    IF low < max_pos THEN low ELSE max_pos

\* the pair the page shows: view_df.iloc[super_pos]
ShownRow(rv, df) == view_df(rv, df)[Get(rv.super_pos) + 1]

\* one run of show_super_review_interface: the keys are created (lines
\* 367-370), and with a non-empty view the position is clamped (line 419)
RenderFrom(rv, df) ==
    LET r1 == [rv EXCEPT
                  !.super_flags = IF @ = None THEN Some(<<>>) ELSE @,
                  !.super_pos = IF @ = None THEN Some(0) ELSE @]
        view == view_df(r1, df)
    IN IF view = <<>> THEN r1
       ELSE [r1 EXCEPT !.super_pos = Some(Clamp(Get(@), Len(view) - 1))]

\* the run after the handler left rv, with the widget rule: the note is kept
\* while the pair the previous run displayed (in state prev) is displayed
\* again (the key of line 490 is note_{pair_index})
Render(prev, rv, df) ==
    LET r2 == RenderFrom(rv, df)
        shown(r) == IF r.super_pos = None \/ view_df(r, df) = <<>> THEN None
                    ELSE Some(ShownRow(r, df).index)
    IN IF shown(r2) # None /\ shown(r2) = shown(prev) THEN r2
       ELSE [r2 EXCEPT !.note = <<>>]

\* a run that does not draw the review page: its widgets are dropped
Hidden(rv, df) ==
    [rv EXCEPT !.dataset_filter = DatasetOptions(df), !.gt_filter = GtOptions(df),
               !.search_text = <<>>, !.note = <<>>]

----------------------------------------------------------------------------
(* Connecting (get_google_sheet).  st.cache_resource runs the function     *)
(* once in a server process, so a process makes one connect call; the      *)
(* worksheet is shared by the processes.  connect.values is what           *)
(* sheet.get_all_values() returns, header rows included; connect.pc[p] is  *)
(* where process p is in the function.                                     *)

Processes == 1..MaxProcesses

\* headers (lines 75-79)
Headers ==
    <<"timestamp", "annotator_id", "pair_index", "image_a", "image_b",
      "ground_truth", "celeb_id", "human_decision", "initial_explanation",
      "is_correct", "followup_explanation">>

\* every process has its sheet and the worksheet has its header row: the
\* state in which the sessions of the other specifications run
ConnectOver ==
    [values |-> <<Headers>>, pc |-> [p \in Processes |-> "returned_sheet"]]

----------------------------------------------------------------------------
(* Initial state: main()'s defaults (lines 843-852), a catalog, a ledger   *)

Init ==
    /\ pairs_df \in Catalogs
    /\ sheet \in {"None", "Worksheet"}
    /\ sheet_rows \in InitialLedgers
    /\ session_state =
          [show_instructions |-> TRUE, annotator_id |-> None,
           submitted |-> FALSE, is_super |-> FALSE, mode |-> "annotate",
           completed_local |-> None, snapshot |-> None]
    /\ decision_widget = None
    /\ explanation_widget = EmptyText
    /\ followup_widget = EmptyText
    /\ mode_widget = ModeRadio(session_state)
    /\ review = ReviewAbsent(pairs_df)
    /\ last = [op |-> "init", outcome |-> "none", ledger_ok |-> TRUE,
               queried |-> FALSE]
    /\ connect = ConnectOver
    /\ hist = [calls_ok |-> TRUE, start_over_used |-> FALSE, added |-> {},
               n_initial |-> Len(sheet_rows), others |-> 0, latest |-> {},
               owed |-> None]

\* The interaction's handler left ss1 and rows1; the script runs again.
\* A widget keeps its value while it stays on the page under the same key
\* (decision_{pair}, explanation_{pair}, followup_reflect_{pair}).
Run(ss1, rows1, l, h, radio) ==
    \E query_ok \in (IF MainQueries(ss1, sheet) THEN BOOLEAN ELSE {TRUE}) :
        LET ss2 == Main(ss1, pairs_df, sheet, rows1, query_ok)
            same == /\ OnForm(session_state, pairs_df)
                    /\ OnForm(ss2, pairs_df)
                    /\ current_pair(ss2, pairs_df) = current_pair(session_state, pairs_df)
        IN /\ session_state' = ss2
           /\ sheet_rows' = rows1
           /\ decision_widget' = IF same THEN decision_widget ELSE None
           /\ explanation_widget' = IF same THEN explanation_widget ELSE EmptyText
           /\ followup_widget' =
                 IF same /\ session_state.submitted /\ ss2.submitted
                 THEN followup_widget ELSE EmptyText
           /\ review' = IF Screen(ss2, pairs_df) = "SUPER_REVIEW"
                         THEN Render(review, review, pairs_df)
                         ELSE Hidden(review, pairs_df)
           /\ last' = [l EXCEPT !.queried = l.queried \/ MainQueries(ss1, sheet)]
           /\ mode_widget' = radio
           /\ hist' = [h EXCEPT !.calls_ok = h.calls_ok /\ query_ok]
           /\ UNCHANGED <<connect, pairs_df, sheet>>

\* The handler left ss1 and rows1 and called st.rerun(): the run that follows
\* draws the mode radio from the mode in ss1.
Rerun(ss1, rows1, l, h) == Run(ss1, rows1, l, h, ModeRadio(ss1))

\* The handler changed nothing and did not call st.rerun().
NoRerun(l, h) ==
    /\ last' = l
    /\ hist' = h
    /\ mode_widget' = ModeRadio(session_state)
    /\ UNCHANGED <<connect, pairs_df, sheet, sheet_rows, session_state, decision_widget,
                   explanation_widget, followup_widget, review>>

\* the outcomes of an append_row of this session: it can fail at any time,
\* and the ledger takes MaxAppends new rows, whichever session appends them
AppendOutcomes ==
    IF Len(sheet_rows) - hist.n_initial < MaxAppends
    THEN BOOLEAN ELSE {FALSE}

\* ledger_ok: whether the ledger call of this interaction, if it makes one,
\* goes through (get_all_records at login, append_row at a save)
\* queried: whether the interaction read the ledger (get_all_records)
L(op, outcome, ledger_ok) ==
    [op |-> op, outcome |-> outcome, ledger_ok |-> ledger_ok, queried |-> FALSE]

----------------------------------------------------------------------------
(* The instructions page (show_instructions) *)

\* variant: every annotator starts in the annotation flow
InitialMode_annotate(id) == "annotate"

\* "review" if st.session_state.is_super else "annotate" (lines 342-343)
InitialMode(id) == IF id \in SUPER_USERS THEN "review" ELSE "annotate"

\* variant: the login handler without the assignment of line 342
Login_stale_is_super ==
    /\ CurrentScreen = "INSTRUCTIONS"
    /\ \E annotator_input \in NameInputs :
       \E query_ok \in (IF sheet = "None" THEN {TRUE} ELSE BOOLEAN) :
          LET name_valid == Len(Strip(annotator_input)) >= MIN_NAME_LENGTH
              id == Strip(annotator_input)
              from_sheet == get_completed_pairs(sheet, sheet_rows, Some(id), query_ok)
              ss1 == [session_state EXCEPT
                         !.annotator_id = Some(id),
                         !.mode = IF session_state.is_super THEN "review"
                                  ELSE "annotate",
                         !.completed_local =
                             IF sheet # "None" THEN Some(ToSet(from_sheet))
                             ELSE Some({}),
                         !.show_instructions = FALSE,
                         !.submitted = FALSE]
          IN IF ~name_valid
             THEN NoRerun(L("login", "name_too_short", query_ok), hist)
             ELSE Rerun(ss1, sheet_rows,
                        [L("login", "ok", query_ok) EXCEPT !.queried = (sheet # "None")],
                        [hist EXCEPT !.calls_ok = hist.calls_ok /\ query_ok])

\* variant: the login handler without the reset of line 352
Login_keeps_submitted ==
    /\ CurrentScreen = "INSTRUCTIONS"
    /\ \E annotator_input \in NameInputs :
       \E query_ok \in (IF sheet = "None" THEN {TRUE} ELSE BOOLEAN) :
          LET name_valid == Len(Strip(annotator_input)) >= MIN_NAME_LENGTH
              id == Strip(annotator_input)
              from_sheet == get_completed_pairs(sheet, sheet_rows, Some(id), query_ok)
              ss1 == [session_state EXCEPT
                         !.annotator_id = Some(id),
                         !.is_super = (id \in SUPER_USERS),
                         !.mode = InitialMode(id),
                         !.completed_local =
                             IF sheet # "None" THEN Some(ToSet(from_sheet))
                             ELSE Some({}),
                         !.show_instructions = FALSE]
          IN IF ~name_valid
             THEN NoRerun(L("login", "name_too_short", query_ok), hist)
             ELSE Rerun(ss1, sheet_rows,
                        [L("login", "ok", query_ok) EXCEPT !.queried = (sheet # "None")],
                        [hist EXCEPT !.calls_ok = hist.calls_ok /\ query_ok])

\* "I understand, continue" (lines 320-353)
Login ==
    /\ CurrentScreen = "INSTRUCTIONS"
    /\ \E annotator_input \in NameInputs :
       \E query_ok \in (IF sheet = "None" THEN {TRUE} ELSE BOOLEAN) :
          LET name_valid == Len(Strip(annotator_input)) >= MIN_NAME_LENGTH
              id == Strip(annotator_input)
              from_sheet == get_completed_pairs(sheet, sheet_rows, Some(id), query_ok)
              ss1 == [session_state EXCEPT
                         !.annotator_id = Some(id),
                         !.is_super = (id \in SUPER_USERS),
                         !.mode = InitialMode(id),
                         !.completed_local =
                             IF sheet # "None" THEN Some(ToSet(from_sheet))
                             ELSE Some({}),
                         !.show_instructions = FALSE,
                         !.submitted = FALSE]
          IN IF ~name_valid
             THEN NoRerun(L("login", "name_too_short", query_ok), hist)
             ELSE Rerun(ss1, sheet_rows,
                        [L("login", "ok", query_ok) EXCEPT !.queried = (sheet # "None")],
                        [hist EXCEPT !.calls_ok = hist.calls_ok /\ query_ok])

\* variant: "Continue" clearing the review that is pending
Continue_resets_submitted ==
    /\ CurrentScreen = "INSTRUCTIONS"
    /\ State.annotator_id # None
    /\ Rerun([session_state EXCEPT !.show_instructions = FALSE,
                                   !.submitted = FALSE],
             sheet_rows, L("continue", "ok", TRUE), hist)

\* "Continue" (lines 301-314)
Continue ==
    /\ CurrentScreen = "INSTRUCTIONS"
    /\ State.annotator_id # None
    /\ Rerun([session_state EXCEPT !.show_instructions = FALSE], sheet_rows,
             L("continue", "ok", TRUE), hist)

----------------------------------------------------------------------------
(* The annotation page (show_annotation_interface) *)

\* the sidebar of lines 598-614 is drawn after the "all done" return of line 588
SidebarShown == OnForm(State, pairs_df)

\* "View Instructions" (lines 605-607)
ViewInstructions ==
    /\ SidebarShown
    /\ Rerun([session_state EXCEPT !.show_instructions = TRUE], sheet_rows,
             L("view_instructions", "ok", TRUE), hist)

\* variant: Switch Annotator without the del of lines 611-612
SwitchAnnotator_keeps_progress ==
    /\ OnForm(State, pairs_df)
    /\ Rerun([session_state EXCEPT !.annotator_id = None,
                                   !.show_instructions = TRUE,
                                   !.submitted = FALSE],
             sheet_rows, L("switch_annotator", "ok", TRUE), hist)

\* "Switch Annotator" (lines 608-614)
SwitchAnnotator ==
    /\ SidebarShown
    /\ Rerun([session_state EXCEPT !.annotator_id = None,
                                   !.show_instructions = TRUE,
                                   !.completed_local = None,
                                   !.submitted = FALSE],
             sheet_rows, L("switch_annotator", "ok", TRUE), hist)

\* variant: Start over deleting the cache instead of emptying it
StartOver_drops_cache ==
    /\ CurrentScreen = "ALL_COMPLETE"
    /\ Rerun([session_state EXCEPT !.completed_local = None,
                                   !.submitted = FALSE],
             sheet_rows, L("start_over", "ok", TRUE),
             [hist EXCEPT !.start_over_used = TRUE])

\* "Start over (re-annotate all pairs)" (lines 582-588)
StartOver ==
    /\ CurrentScreen = "ALL_COMPLETE"
    /\ Rerun([session_state EXCEPT !.completed_local = Some({}),
                                   !.submitted = FALSE],
             sheet_rows, L("start_over", "ok", TRUE),
             [hist EXCEPT !.start_over_used = TRUE])

\* what the explanation text area (lines 664-670) can hold once the decision
\* changed: its placeholder follows the decision (lines 650-661).  Where a
\* widget is identified by its key together with its parameters, the text
\* area is a new widget and starts empty; where the key alone identifies
\* it, the text stays.  The repository pins no version of Streamlit, so both
\* are outcomes of the choice.
ExplanationsAfterDecision(text) == {text, EmptyText}

\* the radio of lines 642-648
EditDecision ==
    /\ OnForm(State, pairs_df)
    /\ \E d \in Decisions :
          /\ decision_widget # Some(d)
          /\ decision_widget' = Some(d)
    /\ explanation_widget' \in ExplanationsAfterDecision(explanation_widget)
    /\ last' = L("edit", "decision", TRUE)
    /\ mode_widget' = ModeRadio(session_state)
    /\ UNCHANGED <<connect, pairs_df, sheet, sheet_rows, session_state,
                   followup_widget, review, hist>>

\* the text area of lines 664-670, disabled while no decision is selected
EditExplanation ==
    /\ OnForm(State, pairs_df)
    /\ decision_widget # None
    /\ \E t \in Texts :
          /\ explanation_widget # t
          /\ explanation_widget' = t
    /\ last' = L("edit", "explanation", TRUE)
    /\ mode_widget' = ModeRadio(session_state)
    /\ UNCHANGED <<connect, pairs_df, sheet, sheet_rows, session_state,
                   decision_widget, followup_widget, review, hist>>

\* the text area of lines 754-762
EditFollowup ==
    /\ CurrentScreen = "REVIEWING_INCORRECT"
    /\ \E t \in Texts :
          /\ followup_widget # t
          /\ followup_widget' = t
    /\ last' = L("edit", "followup", TRUE)
    /\ mode_widget' = ModeRadio(session_state)
    /\ UNCHANGED <<connect, pairs_df, sheet, sheet_rows, session_state,
                   decision_widget, explanation_widget, review, hist>>

\* the annotation of lines 707-719
CorrectAnnotation(annotator_id, pair_data, ground_truth, decision, initial_explanation) ==
    [annotator_id |-> annotator_id,
     pair_index |-> IntCell(pair_data.index),
     image_a |-> pair_data.A,
     image_b |-> pair_data.B,
     ground_truth |-> ground_truth,
     celeb_id |-> pair_data.celeb_id,
     human_decision |-> decision,
     initial_explanation |-> initial_explanation,
     is_correct |-> TRUE,
     followup_explanation |-> EmptyText]

\* variant: the ground truth written to the human_decision column
IncorrectAnnotation_stores_truth(annotator_id, snap, followup_explanation) ==
    [annotator_id |-> annotator_id,
     pair_index |-> IntCell(snap.pair_data.index),
     image_a |-> snap.pair_data.A,
     image_b |-> snap.pair_data.B,
     ground_truth |-> snap.ground_truth,
     celeb_id |-> snap.pair_data.celeb_id,
     human_decision |-> snap.ground_truth,
     initial_explanation |-> snap.initial_explanation,
     is_correct |-> FALSE,
     followup_explanation |-> followup_explanation]

\* the annotation of lines 787-799
IncorrectAnnotation(annotator_id, snap, followup_explanation) ==
    [annotator_id |-> annotator_id,
     pair_index |-> IntCell(snap.pair_data.index),
     image_a |-> snap.pair_data.A,
     image_b |-> snap.pair_data.B,
     ground_truth |-> snap.ground_truth,
     celeb_id |-> snap.pair_data.celeb_id,
     human_decision |-> snap.decision,
     initial_explanation |-> snap.initial_explanation,
     is_correct |-> FALSE,
     followup_explanation |-> followup_explanation]

\* variant: every decision counted as correct
IsCorrect_always(decision, ground_truth) == TRUE

\* decision == ground_truth (line 704)
IsCorrect(decision, ground_truth) == decision = ground_truth

\* variant: the length test on the text as typed
LongEnough_untrimmed(text) == Len(text) >= MIN_EXPLANATION_LENGTH

\* len(text.strip()) >= MIN_EXPLANATION_LENGTH (lines 672, 764)
LongEnough(text) == Len(Strip(text)) >= MIN_EXPLANATION_LENGTH

\* history: hist.owed, where it is kept (it is None where it is not), holds
\* the <<annotator, pair>> whose ground truth was shown after an incorrect
\* submit (lines 725-731) and whose row has not been saved since (line 800)
Owe(h, annotator_id, pair_index) ==
    [h EXCEPT !.owed = IF @ = None THEN None
                       ELSE Some(Get(@) \cup {<<annotator_id, pair_index>>})]

Settle(h, annotator_id, pair_index) ==
    [h EXCEPT !.owed = IF @ = None THEN None
                       ELSE Some(Get(@) \ {<<annotator_id, pair_index>>})]

\* "Submit Answer" (lines 692-731)
SubmitAnswer ==
    /\ CurrentScreen = "ANNOTATING"
    /\ \E append_ok \in AppendOutcomes :
          LET pair_data == PairRow(pairs_df, current_pair(State, pairs_df))
              decision == decision_widget
              initial_explanation == explanation_widget
              explanation_valid == LongEnough(initial_explanation)
              ground_truth == Lower(pair_data.ground_truth)
              annotation == CorrectAnnotation(Get(State.annotator_id), pair_data,
                                ground_truth, Get(decision), initial_explanation)
              res == save_annotation(sheet, sheet_rows, annotation, append_ok)
          IN IF decision = None
             THEN NoRerun(L("submit", "no_decision", append_ok), hist)
             ELSE IF ~explanation_valid
             THEN NoRerun(L("submit", "explanation_too_short", append_ok), hist)
             ELSE IF IsCorrect(Get(decision), ground_truth)
             THEN IF res.saved
                  THEN Rerun([session_state EXCEPT
                                 !.completed_local =
                                     Some(Get(@) \cup {pair_data.index}),
                                 !.submitted = FALSE],
                             res.rows, L("submit", "saved", append_ok),
                             [hist EXCEPT !.added =
                                 @ \cup {<<Get(State.annotator_id), pair_data.index>>}])
                  ELSE NoRerun(L("submit", "save_failed", append_ok),
                               [hist EXCEPT !.calls_ok = FALSE])
             ELSE Rerun([session_state EXCEPT
                            !.submitted = TRUE,
                            !.snapshot = Some([is_correct |-> FALSE,
                                               ground_truth |-> ground_truth,
                                               decision |-> Get(decision),
                                               initial_explanation |-> initial_explanation,
                                               pair_data |-> pair_data])],
                        sheet_rows, L("submit", "incorrect", append_ok),
                        Owe(hist, Get(State.annotator_id), pair_data.index))

\* "Next Pair" (lines 733-803)
NextPair ==
    /\ CurrentScreen = "REVIEWING_INCORRECT"
    /\ \E append_ok \in AppendOutcomes :
          LET snap == Get(State.snapshot)
              followup_explanation == followup_widget
              followup_valid == LongEnough(followup_explanation)
              annotation == IncorrectAnnotation(Get(State.annotator_id), snap,
                                                followup_explanation)
              res == save_annotation(sheet, sheet_rows, annotation, append_ok)
          IN IF ~followup_valid
             THEN NoRerun(L("next_pair", "reflection_too_short", append_ok), hist)
             ELSE IF res.saved
             THEN Rerun([session_state EXCEPT
                            !.completed_local =
                                Some(Get(@) \cup {snap.pair_data.index}),
                            !.submitted = FALSE],
                        res.rows, L("next_pair", "saved", append_ok),
                        [Settle(hist, Get(State.annotator_id), snap.pair_data.index)
                            EXCEPT !.added =
                            @ \cup {<<Get(State.annotator_id), snap.pair_data.index>>}])
             ELSE NoRerun(L("next_pair", "save_failed", append_ok),
                          [hist EXCEPT !.calls_ok = FALSE])

----------------------------------------------------------------------------
(* The mode selector of a super user (main, lines 875-889) *)

\* The click reaches the radio that is on the page.  The run it starts draws
\* the radio from st.session_state.mode (line 882): when that is the radio
\* on the page, the call returns the option clicked and line 884 stores it;
\* the radio on the page is then the one drawn for the mode before.  When
\* the radio on the page was drawn for another mode (the interaction before
\* was a mode change), the run draws a new radio, which returns its default,
\* the mode in force: the click is lost, and the new radio is on the page.
SelectMode ==
    /\ ~State.show_instructions
    /\ State.annotator_id # None
    /\ State.is_super
    /\ \E selected \in {"review", "annotate"} :
          /\ selected # State.mode
          /\ IF mode_widget = Some(State.mode)
             THEN Run([session_state EXCEPT !.mode = selected], sheet_rows,
                      L("select_mode", selected, TRUE), hist, mode_widget)
             ELSE Run(session_state, sheet_rows,
                      L("select_mode", "lost", TRUE), hist, Some(State.mode))

----------------------------------------------------------------------------

Next ==
    \/ Login
    \/ Continue
    \/ ViewInstructions
    \/ SwitchAnnotator
    \/ StartOver
    \/ EditDecision
    \/ EditExplanation
    \/ EditFollowup
    \/ SubmitAnswer
    \/ NextPair
    \/ SelectMode

Spec == Init /\ [][Next]_vars

----------------------------------------------------------------------------
(* The review browser (show_super_review_interface).  One action is one    *)
(* interaction on that page: the handler, then the rest of the script run. *)

\* the run of main() and of the page after the handler left rv1
ReviewRun(rv1, l, h) ==
    /\ review' = Render(review, rv1, pairs_df)
    /\ session_state' = Main(session_state, pairs_df, sheet, sheet_rows, TRUE)
    /\ mode_widget' = ModeRadio(session_state)
    /\ last' = l
    /\ hist' = h
    /\ UNCHANGED <<connect, pairs_df, sheet, sheet_rows, decision_widget,
                   explanation_widget, followup_widget>>

\* the page is on the screen (its sidebar is drawn)
ReviewShown ==
    /\ CurrentScreen = "SUPER_REVIEW"
    /\ review.super_flags # None

\* the page got past the return of line 415: a pair is displayed
PairShown ==
    /\ ReviewShown
    /\ view_df(review, pairs_df) # <<>>

\* the multiselect of lines 376-380: one option selected or removed
SetDatasetFilter ==
    /\ ReviewShown
    /\ \E o \in DatasetOptions(pairs_df) :
          ReviewRun([review EXCEPT !.dataset_filter =
                        IF o \in @ THEN @ \ {o} ELSE @ \cup {o}],
                    L("review", "ok", TRUE), hist)

\* the multiselect of lines 383-387
SetGtFilter ==
    /\ ReviewShown
    /\ \E o \in GtOptions(pairs_df) :
          ReviewRun([review EXCEPT !.gt_filter =
                        IF o \in @ THEN @ \ {o} ELSE @ \cup {o}],
                    L("review", "ok", TRUE), hist)

\* the search box of line 389
SetSearch ==
    /\ ReviewShown
    /\ \E typed \in SearchInputs :
          /\ Strip(typed) # review.search_text
          /\ ReviewRun([review EXCEPT !.search_text = Strip(typed)],
                       L("review", "ok", TRUE), hist)

\* "Clear flagged list" (lines 394-396)
ClearFlags ==
    /\ ReviewShown
    /\ ReviewRun([review EXCEPT !.super_flags = Some(<<>>)],
                 L("review", "ok", TRUE), [hist EXCEPT !.latest = {}])

\* what the note input (line 490) can hold after a handler's st.rerun(): the
\* run ended before the input was drawn.  The server drops the state of the
\* widgets a run did not draw, and the next run then draws the input empty;
\* a browser that keeps the elements of a run ended for a rerun sends the
\* text again, and the input holds it still.  The repository pins no
\* version of Streamlit, so both are outcomes of the press.
NotesAfterRerun(rv) == {rv.note, <<>>}

\* what st.rerun() leaves when a handler calls it with the position pos
RerunAt(rv, pos, note) == [rv EXCEPT !.super_pos = Some(pos), !.note = note]

\* the handler of "Previous" (lines 424-426) and the run that follows it
PreviousPress(l) ==
    /\ PairShown
    /\ \E note \in NotesAfterRerun(review) :
          ReviewRun(RerunAt(review,
                            IF Get(review.super_pos) - 1 > 0
                            THEN Get(review.super_pos) - 1 ELSE 0,
                            note),
                    l, hist)

\* "Previous"
PreviousPair == PreviousPress(L("review", "ok", TRUE))

\* variant: "Next" moving two positions
FollowingPress_skips(l) ==
    /\ PairShown
    /\ \E note \in NotesAfterRerun(review) :
          LET max_pos == Len(view_df(review, pairs_df)) - 1 IN
          ReviewRun(RerunAt(review,
                            IF Get(review.super_pos) + 2 < max_pos
                            THEN Get(review.super_pos) + 2 ELSE max_pos,
                            note),
                    l, hist)

\* the handler of "Next" (lines 428-430) and the run that follows it
FollowingPress(l) ==
    /\ PairShown
    /\ \E note \in NotesAfterRerun(review) :
          LET max_pos == Len(view_df(review, pairs_df)) - 1 IN
          ReviewRun(RerunAt(review,
                            IF Get(review.super_pos) + 1 < max_pos
                            THEN Get(review.super_pos) + 1 ELSE max_pos,
                            note),
                    l, hist)

\* "Next"
FollowingPair == FollowingPress(L("review", "ok", TRUE))

Abs(n) == IF n < 0 THEN -n ELSE n

\* the position "Go" moves to (lines 440-445)
JumpPosition(indices, jump_index) ==
    IF jump_index \in ToSet(indices)
    THEN (CHOOSE k \in 1..Len(indices) :
             /\ indices[k] = jump_index
             /\ \A j \in 1..(k - 1) : indices[j] # jump_index) - 1
    ELSE (CHOOSE k \in 1..Len(indices) :
             /\ \A j \in 1..Len(indices) :
                   Abs(indices[k] - jump_index) <= Abs(indices[j] - jump_index)
             /\ \A j \in 1..(k - 1) :
                   Abs(indices[j] - jump_index) > Abs(indices[k] - jump_index)) - 1

\* the values the number input of lines 432-438 accepts: from
\* pairs_df["index"].min() to pairs_df["index"].max()
JumpInputs(df) ==
    LET idx == valid_indices(df)
        lo == CHOOSE i \in idx : \A j \in idx : i <= j
        hi == CHOOSE i \in idx : \A j \in idx : i >= j
    IN lo..hi

\* "Go" (lines 439-446)
Go ==
    /\ PairShown
    /\ \E jump_index \in JumpInputs(pairs_df) :
       \E note \in NotesAfterRerun(review) :
          ReviewRun(RerunAt(review,
                            JumpPosition(IndexList(view_df(review, pairs_df)),
                                         jump_index),
                            note),
                    L("review", "ok", TRUE), hist)

\* the text input of line 490
EditNote ==
    /\ PairShown
    /\ \E typed \in Notes :
          /\ typed # review.note
          /\ ReviewRun([review EXCEPT !.note = typed],
                       L("review", "ok", TRUE), hist)

\* the dict of lines 496-504, 510-518, 524-532
Flag(row, suggested_ground_truth, issue_type, note) ==
    [index |-> row.index, A |-> row.A, B |-> row.B,
     current_ground_truth |-> row.ground_truth,
     suggested_ground_truth |-> suggested_ground_truth,
     issue_type |-> issue_type, notes |-> note]

\* the three buttons of lines 493-534
FlagButtons ==
    { <<"same", "wrong_gt">>, <<"different", "wrong_gt">>, <<"", "broken_unusable">> }

\* "Flag: should be SAME", "Flag: should be DIFFERENT", "Flag: broken / unusable"
FlagPair ==
    /\ PairShown
    /\ Len(Get(review.super_flags)) < MaxFlags
    /\ \E b \in FlagButtons :
          LET f == Flag(ShownRow(review, pairs_df), b[1], b[2], review.note) IN
          ReviewRun([review EXCEPT !.super_flags = Some(Append(Get(@), f))],
                    L("review", "ok", TRUE),
                    [hist EXCEPT !.latest =
                        { g \in @ : g.index # f.index } \cup {f}])

\* the elements of rows at the positions in keep, in order
RECURSIVE PickFrom(_, _, _)
PickFrom(rows, keep, k) ==
    IF k > Len(rows) THEN <<>>
    ELSE (IF k \in keep THEN <<rows[k]>> ELSE <<>>) \o PickFrom(rows, keep, k + 1)

\* variant: drop_duplicates with keep="first"
DropDuplicates_keep_first(flags) ==
    PickFrom(flags,
             { k \in 1..Len(flags) :
                 \A j \in 1..(k - 1) : flags[j].index # flags[k].index },
             1)

\* flags_df.drop_duplicates(subset=["index"], keep="last")
DropDuplicates(flags) ==
    PickFrom(flags,
             { k \in 1..Len(flags) :
                 \A j \in (k + 1)..Len(flags) : flags[j].index # flags[k].index },
             1)

\* flags_df of line 541, which st.dataframe displays
FlagTable(flags) == SortByIndex(DropDuplicates(flags))

\* the table of lines 536-550 is drawn: a pair is displayed and the list is
\* not empty
TableShown ==
    /\ PairShown
    /\ Get(review.super_flags) # <<>>

CsvHeader ==
    <<"index", "A", "B", "current_ground_truth", "suggested_ground_truth",
      "issue_type", "notes">>

\* flags_df.to_csv(index=False): the header line, then one line per row with
\* the columns in the header's order
ToCsv(table) ==
    <<CsvHeader>> \o
    [k \in 1..Len(table) |->
        <<table[k].index, table[k].A, table[k].B, table[k].current_ground_truth,
          table[k].suggested_ground_truth, table[k].issue_type, table[k].notes>>]

\* what "Download flagged list as CSV" hands out (lines 544-550)
ExportedCsv == ToCsv(FlagTable(Get(review.super_flags)))

\* "Download flagged list as CSV": the click re-runs the script
Export ==
    /\ TableShown
    /\ ReviewRun(review, L("review", "ok", TRUE), hist)

\* a privileged user right after the login of lines 337-353, over a ledger
\* that holds rows of that id; the review page has been drawn once
ReviewInit ==
    /\ pairs_df \in {CatalogR, CatalogEmpty}
    /\ sheet = "Worksheet"
    /\ sheet_rows = LedgerUsed
    /\ session_state =
          [show_instructions |-> FALSE, annotator_id |-> Some(Venus),
           submitted |-> FALSE, is_super |-> TRUE, mode |-> InitialMode(Venus),
           completed_local |->
               Some(ToSet(get_completed_pairs(sheet, sheet_rows, Some(Venus), TRUE))),
           snapshot |-> None]
    /\ decision_widget = None
    /\ explanation_widget = EmptyText
    /\ followup_widget = EmptyText
    /\ mode_widget = ModeRadio(session_state)
    /\ review = Render(ReviewAbsent(pairs_df), ReviewAbsent(pairs_df), pairs_df)
    /\ last = [L("login", "ok", TRUE) EXCEPT !.queried = TRUE]
    /\ connect = ConnectOver
    /\ hist = [calls_ok |-> TRUE, start_over_used |-> FALSE, added |-> {},
               n_initial |-> Len(sheet_rows), others |-> 0, latest |-> {},
               owed |-> None]

ReviewNext ==
    \/ SetDatasetFilter
    \/ SetGtFilter
    \/ SetSearch
    \/ ClearFlags
    \/ PreviousPair
    \/ FollowingPair
    \/ Go
    \/ EditNote
    \/ FlagPair
    \/ Export

SpecReview == ReviewInit /\ [][ReviewNext]_vars

----------------------------------------------------------------------------
(* Browsing: the filters and the navigation of the review browser over a   *)
(* catalog of five pairs, two data sets and both labels.                   *)

\* rows out of index order; no pair has index 5, which the number input of
\* lines 432-438 accepts all the same
CatalogV ==
    << Pair(4, CelebaPrefix \o <<"a", "4">>, CelebaPrefix \o <<"b", "4">>, "Same", "c4"),
       Pair(1, FileA(1), FileB(1), "different", "c1"),
       Pair(6, FileA(6), FileB(6), "SAME", "c6"),
       Pair(3, CelebaPrefix \o <<"a", "3">>, CelebaPrefix \o <<"b", "3">>,
            "DIFFERENT", "c3"),
       Pair(2, FileA(2), FileB(2), "same", "c2") >>

\* a privileged user right after the login of lines 337-353; the review page
\* has been drawn once
BrowseInit ==
    /\ pairs_df \in {CatalogV, CatalogR}
    /\ sheet = "Worksheet"
    /\ sheet_rows = LedgerUsed
    /\ session_state =
          [show_instructions |-> FALSE, annotator_id |-> Some(Venus),
           submitted |-> FALSE, is_super |-> TRUE, mode |-> InitialMode(Venus),
           completed_local |->
               Some(ToSet(get_completed_pairs(sheet, sheet_rows, Some(Venus), TRUE))),
           snapshot |-> None]
    /\ decision_widget = None
    /\ explanation_widget = EmptyText
    /\ followup_widget = EmptyText
    /\ mode_widget = ModeRadio(session_state)
    /\ review = Render(ReviewAbsent(pairs_df), ReviewAbsent(pairs_df), pairs_df)
    /\ last = [L("login", "ok", TRUE) EXCEPT !.queried = TRUE]
    /\ connect = ConnectOver
    /\ hist = [calls_ok |-> TRUE, start_over_used |-> FALSE, added |-> {},
               n_initial |-> Len(sheet_rows), others |-> 0, latest |-> {},
               owed |-> None]

BrowsePrevious == PreviousPress(L("previous", "ok", TRUE))

BrowseFollowing == FollowingPress(L("following", "ok", TRUE))

BrowseNext ==
    \/ SetDatasetFilter
    \/ SetGtFilter
    \/ SetSearch
    \/ BrowsePrevious
    \/ BrowseFollowing
    \/ Go

SpecBrowse == BrowseInit /\ [][BrowseNext]_vars

----------------------------------------------------------------------------
(* Other browser sessions.  The worksheet is the only thing sessions       *)
(* share; what another session does to it is the append_row of its own     *)
(* save_annotation, with its own annotator_id (lines 94-109).              *)

\* the texts the two length tests accept (lines 672, 764)
ValidTexts == { t \in Texts : LongEnough(t) }

\* the annotations a session of annotator id can save for pair_data: with a
\* decision that equals the label, the one of lines 707-719; with any other
\* decision, the one of lines 787-799, built from what lines 725-730 stored
SavedAnnotations(id, pair_data) ==
    LET ground_truth == Lower(pair_data.ground_truth) IN
    UNION { IF IsCorrect(decision, ground_truth)
            THEN { CorrectAnnotation(id, pair_data, ground_truth, decision, text) :
                      text \in ValidTexts }
            ELSE { IncorrectAnnotation(id,
                       [pair_data |-> pair_data, ground_truth |-> ground_truth,
                        decision |-> decision, initial_explanation |-> text],
                       followup) :
                      text \in ValidTexts, followup \in ValidTexts }
            : decision \in Decisions }

\* a session of one of the annotators in ids saves an annotation, of a
\* correct or of an incorrect answer
AppendBy(ids) ==
    /\ sheet = "Worksheet"
    /\ hist.others < MaxOtherAppends
    /\ Len(sheet_rows) - hist.n_initial < MaxAppends
    /\ \E id \in ids, k \in 1..Len(pairs_df) :
       \E annotation \in SavedAnnotations(id, pairs_df[k]) :
          sheet_rows' = save_annotation(sheet, sheet_rows, annotation, TRUE).rows
    /\ hist' = [hist EXCEPT !.others = @ + 1]
    /\ UNCHANGED <<connect, pairs_df, sheet, session_state, decision_widget,
                   explanation_widget, followup_widget, mode_widget, review, last>>

\* the session of another annotator, who does not log in in this browser
OtherSessionAppends == AppendBy({Bobby})

\* the Scenario A catalog, a worksheet that is reachable and still empty
SharedInit ==
    /\ Init
    /\ pairs_df = CatalogA
    /\ sheet = "Worksheet"
    /\ sheet_rows = LedgerEmpty

\* every interaction of this browser's session, while the other session
\* appends
SharedNext ==
    \/ Login
    \/ Continue
    \/ ViewInstructions
    \/ SwitchAnnotator
    \/ StartOver
    \/ EditDecision
    \/ EditExplanation
    \/ EditFollowup
    \/ SubmitAnswer
    \/ NextPair
    \/ SelectMode
    \/ OtherSessionAppends

SpecShared == SharedInit /\ [][SharedNext]_vars

----------------------------------------------------------------------------
(* ensure_local_progress_initialized on its own: the function applied to a *)
(* session with an annotator, with or without a cache (the docstring's     *)
(* first initialisation from the sheet), over a ledger that other sessions *)
(* of any annotator extend between two runs.                               *)

\* the caches a session can hold: none, or indices in and out of the catalogs
CacheInputs == {None} \cup { Some(c) : c \in SUBSET {1, 2, 99} }

ReconcileInit ==
    /\ pairs_df \in Catalogs
    /\ sheet \in {"None", "Worksheet"}
    /\ sheet_rows \in InitialLedgers
    /\ \E id \in {Alice, Venus}, cache \in CacheInputs :
          session_state =
             [show_instructions |-> FALSE, annotator_id |-> Some(id),
              submitted |-> FALSE, is_super |-> (id \in SUPER_USERS),
              mode |-> "annotate", completed_local |-> cache, snapshot |-> None]
    /\ decision_widget = None
    /\ explanation_widget = EmptyText
    /\ followup_widget = EmptyText
    /\ mode_widget = ModeRadio(session_state)
    /\ review = ReviewAbsent(pairs_df)
    /\ last = L("init", "none", TRUE)
    /\ connect = ConnectOver
    /\ hist = [calls_ok |-> TRUE, start_over_used |-> FALSE, added |-> {},
               n_initial |-> Len(sheet_rows), others |-> 0, latest |-> {},
               owed |-> None]

\* one call of ensure_local_progress_initialized(sheet, pairs_df)
Reconcile ==
    \E query_ok \in (IF MainQueries(session_state, sheet) THEN BOOLEAN ELSE {TRUE}) :
        /\ session_state' = ensure_local_progress_initialized(
                                session_state, pairs_df, sheet, sheet_rows, query_ok)
        /\ last' = [L("reconcile",
                      IF last.op = "reconcile" THEN "again" ELSE "first",
                      query_ok)
                    EXCEPT !.queried = MainQueries(session_state, sheet)]
        /\ hist' = [hist EXCEPT !.calls_ok = @ /\ query_ok]
        /\ UNCHANGED <<connect, pairs_df, sheet, sheet_rows, decision_widget,
                       explanation_widget, followup_widget, mode_widget, review>>

\* a row reaches the ledger from another browser session, of this annotator
\* or of another one
LedgerGrows == AppendBy({Alice, Bobby})

ReconcileNext ==
    \/ Reconcile
    \/ LedgerGrows

SpecReconcile == ReconcileInit /\ [][ReconcileNext]_vars

----------------------------------------------------------------------------
(* The annotation session with the history of the follow-ups owed: the     *)
(* Scenario A catalog over an empty worksheet.                             *)

OwedInit ==
    /\ pairs_df = CatalogA
    /\ sheet = "Worksheet"
    /\ sheet_rows = LedgerEmpty
    /\ session_state =
          [show_instructions |-> TRUE, annotator_id |-> None,
           submitted |-> FALSE, is_super |-> FALSE, mode |-> "annotate",
           completed_local |-> None, snapshot |-> None]
    /\ decision_widget = None
    /\ explanation_widget = EmptyText
    /\ followup_widget = EmptyText
    /\ mode_widget = ModeRadio(session_state)
    /\ review = ReviewAbsent(pairs_df)
    /\ connect = ConnectOver
    /\ last = L("init", "none", TRUE)
    /\ hist = [calls_ok |-> TRUE, start_over_used |-> FALSE, added |-> {},
               n_initial |-> Len(sheet_rows), others |-> 0, latest |-> {},
               owed |-> Some({})]

\* the actions of the annotation flow that keep or reset a follow-up owed
OwedNext ==
    \/ Login
    \/ Continue
    \/ ViewInstructions
    \/ SwitchAnnotator
    \/ EditDecision
    \/ EditExplanation
    \/ EditFollowup
    \/ SubmitAnswer
    \/ NextPair

SpecOwed == OwedInit /\ [][OwedNext]_vars

----------------------------------------------------------------------------
(* The annotator at work: logged in, on the annotation page, over a        *)
(* worksheet that is reachable.  The annotator edits, submits, follows up, *)
(* may read the instructions and come back; nobody logs in, switches or    *)
(* starts over.                                                            *)

\* the first run of the annotation page after alice's login
ProgressInit ==
    /\ pairs_df \in {CatalogA, CatalogB, CatalogC}
    /\ sheet = "Worksheet"
    /\ sheet_rows \in InitialLedgers
    /\ session_state =
          Main([show_instructions |-> FALSE, annotator_id |-> Some(Alice),
                submitted |-> FALSE, is_super |-> (Alice \in SUPER_USERS),
                mode |-> InitialMode(Alice),
                completed_local |->
                    Some(ToSet(get_completed_pairs(sheet, sheet_rows, Some(Alice), TRUE))),
                snapshot |-> None],
               pairs_df, sheet, sheet_rows, TRUE)
    /\ decision_widget = None
    /\ explanation_widget = EmptyText
    /\ followup_widget = EmptyText
    /\ mode_widget = ModeRadio(session_state)
    /\ review = ReviewAbsent(pairs_df)
    /\ connect = ConnectOver
    /\ last = [L("login", "ok", TRUE) EXCEPT !.queried = TRUE]
    /\ hist = [calls_ok |-> TRUE, start_over_used |-> FALSE, added |-> {},
               n_initial |-> Len(sheet_rows), others |-> 0, latest |-> {},
               owed |-> None]

ProgressNext ==
    \/ EditDecision
    \/ EditExplanation
    \/ EditFollowup
    \/ SubmitAnswer
    \/ NextPair
    \/ ViewInstructions
    \/ Continue

\* a submit or a follow-up that the page accepts and, where it appends to the
\* ledger, whose append goes through
Persisted ==
    \/ SubmitAnswer /\ last'.outcome \in {"saved", "incorrect"}
    \/ NextPair /\ last'.outcome = "saved"

\* the annotator keeps working: comes back to the annotation page, selects
\* a decision, types an explanation and a reflection that are long enough,
\* and submits them; an append that is tried again and again goes through
ProgressFairness ==
    /\ WF_vars(Continue)
    /\ SF_vars(EditDecision)
    /\ SF_vars(EditExplanation /\ explanation_widget' = ExactText)
    /\ SF_vars(EditFollowup /\ followup_widget' = ExactText)
    /\ SF_vars(Persisted)

SpecProgress == ProgressInit /\ [][ProgressNext]_vars /\ ProgressFairness

----------------------------------------------------------------------------
(* The connect calls of the server processes, interleaved at the calls     *)
(* they make to the Sheets service, followed by the appends of sessions    *)
(* served by a process that has its sheet.                                 *)

\* row of save_annotation (lines 95-107); the timestamp is "t"
RowValues(annotation_data) ==
    <<"t", annotation_data.annotator_id, annotation_data.pair_index.v,
      annotation_data.image_a, annotation_data.image_b,
      annotation_data.ground_truth, annotation_data.celeb_id,
      annotation_data.human_decision, annotation_data.initial_explanation,
      annotation_data.is_correct, annotation_data.followup_explanation>>

\* a worksheet that has been used: the header row and one annotation
ValuesUsed ==
    << Headers,
       RowValues(CorrectAnnotation(Bobby, CatalogC[1], "same", "same", ExactText)) >>

\* no process has called get_google_sheet yet; no session has got past the
\* connect of line 861
ConnectInit ==
    /\ pairs_df = CatalogC
    /\ sheet = "None"
    /\ sheet_rows = LedgerEmpty
    /\ session_state =
          [show_instructions |-> TRUE, annotator_id |-> None,
           submitted |-> FALSE, is_super |-> FALSE, mode |-> "annotate",
           completed_local |-> None, snapshot |-> None]
    /\ decision_widget = None
    /\ explanation_widget = EmptyText
    /\ followup_widget = EmptyText
    /\ mode_widget = ModeRadio(session_state)
    /\ review = ReviewAbsent(pairs_df)
    /\ connect \in { [values |-> v, pc |-> [p \in Processes |-> "start"]] :
                        v \in {<<>>, <<Headers>>, ValuesUsed} }
    /\ last = L("init", "none", TRUE)
    /\ hist = [calls_ok |-> TRUE, start_over_used |-> FALSE, added |-> {},
               n_initial |-> 0, others |-> 0, latest |-> {},
               owed |-> None]

\* a step of process p that leaves the worksheet as values1 and p at pc1
ConnectStep(p, values1, pc1) ==
    /\ connect' = [values |-> values1, pc |-> [connect.pc EXCEPT ![p] = pc1]]
    /\ UNCHANGED <<pairs_df, sheet, sheet_rows, session_state, decision_widget,
                   explanation_widget, followup_widget, mode_widget, review, last,
                   hist>>

\* lines 59-71: no credentials (return None), authorize or open_by_key
\* raising (return None), or the worksheet opened
OpenSheet(p) ==
    /\ connect.pc[p] = "start"
    /\ \E outcome \in {"no_credentials", "raised", "opened"} :
          ConnectStep(p, connect.values,
                      IF outcome = "opened" THEN "opened" ELSE "returned_none")

\* what sheet.get_all_values() can answer over a worksheet holding values:
\* the rows, and over an empty worksheet either no row ([]) or one empty row
\* ([[]]), as the installed gspread has it; the repository pins no version
get_all_values(values) ==
    IF values = <<>> THEN { <<>>, << <<>> >> } ELSE { values }

\* line 74: sheet.get_all_values(), and the test "not" on what it returned:
\* only the list without a row is false
ReadValues(p) ==
    /\ connect.pc[p] = "opened"
    /\ \E read_ok \in BOOLEAN :
       \E answer \in get_all_values(connect.values) :
          ConnectStep(p, connect.values,
                      IF ~read_ok THEN "returned_none"
                      ELSE IF answer = <<>> THEN "headers_due"
                      ELSE "returned_sheet")

\* line 80: sheet.append_row(headers), then return sheet (line 82)
AppendHeaders(p) ==
    /\ connect.pc[p] = "headers_due"
    /\ \E append_ok \in BOOLEAN :
          IF append_ok
          THEN ConnectStep(p, Append(connect.values, Headers), "returned_sheet")
          ELSE ConnectStep(p, connect.values, "returned_none")

\* the rows that are not header rows
DataRows(values) == SelectSeq(values, LAMBDA row : row # Headers)

\* a session served by process p saves an annotation, of a correct or of an
\* incorrect answer (line 108)
SaveRow(p) ==
    /\ connect.pc[p] = "returned_sheet"
    /\ Len(DataRows(connect.values)) < MaxAppends
    /\ \E id \in {Alice, Bobby}, k \in 1..Len(pairs_df) :
       \E annotation \in SavedAnnotations(id, pairs_df[k]) :
          ConnectStep(p, Append(connect.values, RowValues(annotation)),
                      "returned_sheet")

ConnectNext ==
    \E p \in Processes :
        \/ OpenSheet(p)
        \/ ReadValues(p)
        \/ AppendHeaders(p)
        \/ SaveRow(p)

SpecConnect == ConnectInit /\ [][ConnectNext]_vars

----------------------------------------------------------------------------
(* Vocabulary of the properties, stated without the operators above       *)

\* length of the text between its first and its last non-whitespace character
TrimmedLen(t) ==
    LET ink == { k \in 1..Len(t) : t[k] \notin Whitespace } IN
    IF ink = {} THEN 0
    ELSE (CHOOSE k \in ink : \A j \in ink : j <= k)
         - (CHOOSE k \in ink : \A j \in ink : j >= k) + 1

\* the decision names the stored label, whatever the label's case
SameLabel(decision, stored) ==
    \/ decision = "same" /\ stored \in {"SAME", "Same", "same"}
    \/ decision = "different" /\ stored \in {"DIFFERENT", "Different", "different"}

CatalogIndices == { pairs_df[k].index : k \in 1..Len(pairs_df) }

CatalogRow(i) == pairs_df[CHOOSE k \in 1..Len(pairs_df) : pairs_df[k].index = i]

\* the first index in catalog order that is not in done
FirstNotIn(done) ==
    pairs_df[CHOOSE k \in 1..Len(pairs_df) :
                /\ pairs_df[k].index \notin done
                /\ \A j \in 1..(k - 1) : pairs_df[j].index \in done].index

\* the pair on the screen of the annotation page
PresentedPair == current_pair(State, pairs_df)

reviewPending == State.submitted

FormValid ==
    /\ decision_widget # None
    /\ TrimmedLen(explanation_widget) >= MIN_EXPLANATION_LENGTH

DecisionMatches ==
    SameLabel(Get(decision_widget), CatalogRow(PresentedPair).ground_truth)

InAnnotationFlow ==
    CurrentScreen \in {"ANNOTATING", "REVIEWING_INCORRECT", "ALL_COMPLETE"}

\* the rows this browser session appended
SessionRowPositions == (hist.n_initial + 1)..Len(sheet_rows)

RowsOf(a, i) ==
    { k \in SessionRowPositions :
        sheet_rows[k].annotator_id = a /\ sheet_rows[k].pair_index = IntCell(i) }

\* the integer a pair_index cell stands for: n for the integer n and for text
\* that spells n; a float stands for its integer part
StandsFor(cell, n) ==
    \/ cell.kind \in {"int", "numeric_text"} /\ cell.v = n
    \/ cell.kind = "float" /\ n >= 0 /\ 10 * n <= cell.v /\ cell.v < 10 * (n + 1)
    \/ cell.kind = "float" /\ n <= 0 /\ 10 * (n - 1) < cell.v /\ cell.v <= 10 * n

IndexRange == 0..100

\* the indices the ledger holds for annotator id
OwnIndices(id) ==
    { n \in IndexRange :
        \E k \in 1..Len(sheet_rows) :
            /\ sheet_rows[k].annotator_id = id
            /\ "pair_index" \in DOMAIN sheet_rows[k]
            /\ StandsFor(sheet_rows[k].pair_index, n) }

\* restricted to rows whose pair_index is an integer
OwnIntegerIndices(id) ==
    { n \in IndexRange :
        \E k \in 1..Len(sheet_rows) :
            /\ sheet_rows[k].annotator_id = id
            /\ "pair_index" \in DOMAIN sheet_rows[k]
            /\ sheet_rows[k].pair_index.kind \in {"int", "numeric_text"}
            /\ sheet_rows[k].pair_index.v = n }

----------------------------------------------------------------------------
(* Properties *)

\* C1: a valid submit whose decision equals the ground truth, with the
\* ledger append failing, leaves completedSet and the ledger unchanged,
\* leaves reviewPending false, and the same pair is presented next.
C1_AppendFailureKeepsPair ==
    [][ ( /\ last'.op = "submit"
          /\ FormValid
          /\ DecisionMatches
          /\ ~(sheet = "Worksheet" /\ last'.ledger_ok) )
        => /\ completedSet' = completedSet
           /\ sheet_rows' = sheet_rows
           /\ ~reviewPending'
           /\ CurrentScreen' = "ANNOTATING"
           /\ PresentedPair' = PresentedPair ]_vars

C1_Witness ==
    /\ last.op = "submit"
    /\ last.outcome = "save_failed"
    /\ sheet = "Worksheet"
    /\ ~last.ledger_ok
    /\ CurrentScreen = "ANNOTATING"
    /\ FormValid
    /\ DecisionMatches

\* C2: a valid submit whose decision equals the ground truth (whatever the
\* label's case), with the append succeeding, appends exactly one row, for
\* this annotator and pair; completedSet gains that index and nothing else;
\* the pair presented next is the first of the new remaining list (the
\* completion page when that list is empty).
C2_CorrectSubmitAdvances ==
    [][ ( /\ last'.op = "submit"
          /\ FormValid
          /\ DecisionMatches
          /\ sheet = "Worksheet"
          /\ last'.ledger_ok )
        => /\ Len(sheet_rows') = Len(sheet_rows) + 1
           /\ SubSeq(sheet_rows', 1, Len(sheet_rows)) = sheet_rows
           /\ sheet_rows'[Len(sheet_rows')].annotator_id = Get(State.annotator_id)
           /\ sheet_rows'[Len(sheet_rows')].pair_index = IntCell(PresentedPair)
           /\ sheet_rows'[Len(sheet_rows')].is_correct = TRUE
           /\ PresentedPair \notin completedSet
           /\ completedSet' = completedSet \cup {PresentedPair}
           /\ IF CatalogIndices \subseteq completedSet'
              THEN CurrentScreen' = "ALL_COMPLETE"
              ELSE /\ CurrentScreen' = "ANNOTATING"
                   /\ PresentedPair' = FirstNotIn(completedSet') ]_vars

C2_Witness ==
    /\ last.op = "submit"
    /\ last.outcome = "saved"
    /\ pairs_df = CatalogA
    /\ State.annotator_id = Some(Alice)
    /\ sheet_rows = << CorrectAnnotation(Alice, CatalogA[1], "different",
                                         "different", ExactText) >>
    /\ completedSet = {2}
    /\ CurrentScreen = "ANNOTATING"
    /\ PresentedPair = 1

\* C3: a valid submit whose decision differs from the ground truth appends
\* nothing and leaves completedSet unchanged, sets reviewPending and stores
\* the pair, the decision and the explanation; editing the decision, the
\* explanation or the reflection afterwards does not change what is stored.
C3_IncorrectSubmitSnapshots ==
    [][ /\ ( ( /\ last'.op = "submit"
               /\ FormValid
               /\ ~DecisionMatches )
             => /\ sheet_rows' = sheet_rows
                /\ completedSet' = completedSet
                /\ reviewPending'
                /\ State'.snapshot # None
                /\ Get(State'.snapshot).pair_data = CatalogRow(PresentedPair)
                /\ Get(State'.snapshot).decision = Get(decision_widget)
                /\ Get(State'.snapshot).initial_explanation = explanation_widget )
        /\ ( last'.op = "edit" => State'.snapshot = State.snapshot ) ]_vars

C3_Witness ==
    /\ CurrentScreen = "REVIEWING_INCORRECT"
    /\ last.op = "edit"
    /\ last.outcome = "explanation"
    /\ decision_widget # Some(Get(State.snapshot).decision)
    /\ explanation_widget # Get(State.snapshot).initial_explanation
    /\ Get(State.snapshot).pair_data.index = PresentedPair
    /\ Len(sheet_rows) = hist.n_initial

\* C4: in REVIEWING_INCORRECT a reflection of sufficient length makes one
\* append of an is_correct = false row with the stored pair index, decision
\* and explanation and the reflection; when it succeeds the stored pair joins
\* completedSet and reviewPending is cleared, when it fails the ledger,
\* completedSet and reviewPending are unchanged.
C4_FollowupPersistsSnapshot ==
    [][ ( /\ last'.op = "next_pair"
          /\ TrimmedLen(followup_widget) >= MIN_EXPLANATION_LENGTH )
        => LET snap == Get(State.snapshot) IN
           IF sheet = "Worksheet" /\ last'.ledger_ok
           THEN /\ Len(sheet_rows') = Len(sheet_rows) + 1
                /\ SubSeq(sheet_rows', 1, Len(sheet_rows)) = sheet_rows
                /\ LET r == sheet_rows'[Len(sheet_rows')] IN
                      /\ r.is_correct = FALSE
                      /\ r.annotator_id = Get(State.annotator_id)
                      /\ r.pair_index = IntCell(snap.pair_data.index)
                      /\ r.human_decision = snap.decision
                      /\ r.initial_explanation = snap.initial_explanation
                      /\ r.followup_explanation = followup_widget
                /\ completedSet' = completedSet \cup {snap.pair_data.index}
                /\ ~reviewPending'
           ELSE /\ sheet_rows' = sheet_rows
                /\ completedSet' = completedSet
                /\ reviewPending'
                /\ snap.pair_data.index \notin completedSet' ]_vars

C4_Witness ==
    /\ last.op = "next_pair"
    /\ last.outcome = "saved"
    /\ ~hist.calls_ok
    /\ Len(sheet_rows) = hist.n_initial + 1
    /\ sheet_rows[Len(sheet_rows)].is_correct = FALSE
    /\ sheet_rows[Len(sheet_rows)].followup_explanation = ExactText
    /\ sheet_rows[Len(sheet_rows)].pair_index.v \in completedSet
    /\ ~reviewPending

\* C5: a submit is rejected exactly when no decision is selected or the
\* trimmed explanation is shorter than the minimum, a follow-up exactly when
\* the trimmed reflection is; a rejected submit or follow-up leaves the
\* ledger, completedSet, reviewPending and the stored snapshot unchanged.
C5_RejectedExactlyWhenInvalid ==
    [][ /\ ( last'.op = "submit"
             => ( last'.outcome \in {"no_decision", "explanation_too_short"}
                  <=> ( \/ decision_widget = None
                        \/ TrimmedLen(explanation_widget) < MIN_EXPLANATION_LENGTH ) ) )
        /\ ( last'.op = "next_pair"
             => ( last'.outcome = "reflection_too_short"
                  <=> TrimmedLen(followup_widget) < MIN_EXPLANATION_LENGTH ) )
        /\ ( last'.outcome \in {"no_decision", "explanation_too_short",
                                "reflection_too_short"}
             => /\ sheet_rows' = sheet_rows
                /\ completedSet' = completedSet
                /\ reviewPending' = reviewPending
                /\ State'.snapshot = State.snapshot ) ]_vars

\* the explanation in the snapshot was accepted at exactly the minimum, the
\* reflection is rejected one character below it
C5_Witness ==
    /\ last.op = "next_pair"
    /\ last.outcome = "reflection_too_short"
    /\ TrimmedLen(followup_widget) = MIN_EXPLANATION_LENGTH - 1
    /\ Len(followup_widget) > MIN_EXPLANATION_LENGTH
    /\ TrimmedLen(Get(State.snapshot).initial_explanation) = MIN_EXPLANATION_LENGTH
    /\ reviewPending

\* C6: in the annotation flow the remaining list holds exactly the catalog
\* indices that are not in completedSet, in catalog order, and the session is
\* in ALL_COMPLETE if and only if that list is empty.
C6_RemainingIsCatalogMinusCompleted ==
    InAnnotationFlow =>
        LET rem == remaining(pairs_df, completedSet)
            pos(i) == CHOOSE k \in 1..Len(pairs_df) : pairs_df[k].index = i
        IN /\ { rem[k] : k \in 1..Len(rem) } = CatalogIndices \ completedSet
           /\ \A a, b \in 1..Len(rem) : a < b => pos(rem[a]) < pos(rem[b])
           /\ (CurrentScreen = "ALL_COMPLETE") <=> (rem = <<>>)
           /\ (CurrentScreen = "ALL_COMPLETE") <=> (CatalogIndices \subseteq completedSet)

C6_Witness ==
    /\ CurrentScreen = "ANNOTATING"
    /\ pairs_df = CatalogA
    /\ completedSet = {2}
    /\ remaining(pairs_df, completedSet) = <<1>>
    /\ last.op = "submit"

\* C7 (as amended): while every ledger call has succeeded and start-over has
\* not been used, the session has appended at most one row per (annotator,
\* pair), and exactly one for each pair it added to completedSet.
C7_OncePerPairWithoutStartOver ==
    (hist.calls_ok /\ ~hist.start_over_used) =>
        /\ \A k \in SessionRowPositions :
              Cardinality(RowsOf(sheet_rows[k].annotator_id,
                                 sheet_rows[k].pair_index.v)) = 1
        /\ \A e \in hist.added : Cardinality(RowsOf(e[1], e[2])) = 1

C7_Witness ==
    /\ hist.calls_ok
    /\ ~hist.start_over_used
    /\ Cardinality(hist.added) = 2
    /\ Len(sheet_rows) = hist.n_initial + 2

\* C7 as claimed: the same, start-over or not.
C7_OncePerPair ==
    hist.calls_ok =>
        /\ \A k \in SessionRowPositions :
              Cardinality(RowsOf(sheet_rows[k].annotator_id,
                                 sheet_rows[k].pair_index.v)) = 1
        /\ \A e \in hist.added : Cardinality(RowsOf(e[1], e[2])) = 1

\* C8 (as amended): a login whose ledger query succeeds sets completedSet to
\* the indices that the annotator's rows stand for (an integer, text that
\* spells one, or a float, which counts as its integer part), restricted to
\* the catalog when the id is not privileged, and the pair presented is none
\* of them; when the ledger is unavailable or the query fails the login
\* succeeds with completedSet empty and the first catalog pair presented.
C8_LoginReconcilesFromLedger ==
    [][ ( last'.op = "login" /\ last'.outcome = "ok" )
        => LET id == Get(State'.annotator_id) IN
           /\ ~State'.show_instructions
           /\ IF sheet = "Worksheet" /\ last'.ledger_ok
              THEN /\ completedSet' =
                         IF id \in SUPER_USERS THEN OwnIndices(id)
                         ELSE OwnIndices(id) \cap CatalogIndices
                   /\ OnForm(State', pairs_df) => PresentedPair' \notin OwnIndices(id)
              ELSE /\ completedSet' = {}
                   /\ (id \notin SUPER_USERS /\ pairs_df # <<>>)
                         => /\ CurrentScreen' = "ANNOTATING"
                            /\ PresentedPair' = pairs_df[1].index ]_vars

\* Scenario D: alice's row for pair 1 is in the ledger; pair 1 is not shown
C8_Witness ==
    /\ last.op = "login"
    /\ last.outcome = "ok"
    /\ last.ledger_ok
    /\ sheet = "Worksheet"
    /\ sheet_rows = LedgerUsed
    /\ State.annotator_id = Some(Alice)
    /\ pairs_df = CatalogA
    /\ completedSet = {1}
    /\ PresentedPair = 2

\* C8 as claimed: completedSet becomes the catalog indices that are an
\* integer pair_index of one of the annotator's rows.
C8_LoginYieldsCatalogIntegerIndices ==
    [][ ( /\ last'.op = "login"
          /\ last'.outcome = "ok"
          /\ sheet = "Worksheet"
          /\ last'.ledger_ok )
        => completedSet' =
              OwnIntegerIndices(Get(State'.annotator_id)) \cap CatalogIndices ]_vars

\* C9 as claimed: in ANNOTATING, REVIEWING_INCORRECT and ALL_COMPLETE the
\* view-instructions action is available.
C9_ViewInstructionsAvailable ==
    InAnnotationFlow => ENABLED ViewInstructions

\* C10: switch-annotator leads to INSTRUCTIONS with annotatorId cleared,
\* completedSet discarded and reviewPending false, and leaves the ledger
\* unchanged; the login that follows takes completedSet from the ledger rows
\* of the id entered only, as the ledger is at that moment (the rows this
\* session appended for that id included).
C10_SwitchDiscardsProgress ==
    [][ /\ ( last'.op = "switch_annotator"
             => /\ CurrentScreen' = "INSTRUCTIONS"
                /\ State'.annotator_id = None
                /\ State'.completed_local = None
                /\ ~reviewPending'
                /\ sheet_rows' = sheet_rows )
        /\ ( ( /\ last'.op = "login"
               /\ last'.outcome = "ok"
               /\ State.annotator_id = None )
             => /\ completedSet' \subseteq OwnIndices(Get(State'.annotator_id))
                /\ (sheet = "Worksheet" /\ last'.ledger_ok)
                      => \A e \in hist.added :
                            e[1] = Get(State'.annotator_id) => e[2] \in completedSet'
                /\ ~reviewPending' ) ]_vars

C10_Witness ==
    /\ last.op = "switch_annotator"
    /\ hist.added # {}
    /\ State.annotator_id = None
    /\ State.completed_local = None
    /\ CurrentScreen = "INSTRUCTIONS"
    /\ Len(sheet_rows) > hist.n_initial

\* C11: when the ledger connection failed (sheet is None) every step leaves
\* the ledger unchanged and completedSet empty, no submit or follow-up is
\* saved, a valid submit that differs from the ground truth still enters
\* REVIEWING_INCORRECT, and with a non-empty catalog ALL_COMPLETE is not
\* reached.
C11_NoPersistenceStaysUsable ==
    [][ sheet = "None"
        => /\ sheet_rows' = sheet_rows
           /\ completedSet' = {}
           /\ (pairs_df # <<>> => CurrentScreen' # "ALL_COMPLETE")
           /\ (last'.op \in {"submit", "next_pair"} => last'.outcome # "saved")
           /\ ( ( /\ last'.op = "submit"
                  /\ FormValid
                  /\ ~DecisionMatches )
                => CurrentScreen' = "REVIEWING_INCORRECT" ) ]_vars

\* a reflection of sufficient length was refused at the persistence boundary
C11_Witness ==
    /\ sheet = "None"
    /\ last.op = "next_pair"
    /\ last.outcome = "save_failed"
    /\ CurrentScreen = "REVIEWING_INCORRECT"
    /\ TrimmedLen(followup_widget) >= MIN_EXPLANATION_LENGTH
    /\ completedSet = {}

\* C12: every row the session appended has an initial explanation of trimmed
\* length at least the minimum; a row with is_correct true has the decision
\* that names the pair's ground truth and an empty follow-up; a row with
\* is_correct false has a decision that differs from the ground truth and a
\* follow-up of trimmed length at least the minimum.
C12_AppendedRowsWellFormed ==
    \A k \in SessionRowPositions :
        LET r == sheet_rows[k]
            stored == CatalogRow(r.pair_index.v).ground_truth
        IN /\ TrimmedLen(r.initial_explanation) >= MIN_EXPLANATION_LENGTH
           /\ IF r.is_correct
              THEN /\ SameLabel(r.human_decision, stored)
                   /\ r.human_decision = r.ground_truth
                   /\ r.followup_explanation = <<>>
              ELSE /\ ~SameLabel(r.human_decision, stored)
                   /\ r.human_decision # r.ground_truth
                   /\ r.followup_explanation # <<>>
                   /\ TrimmedLen(r.followup_explanation) >= MIN_EXPLANATION_LENGTH

C12_Witness ==
    /\ Len(sheet_rows) = hist.n_initial + 2
    /\ sheet_rows[hist.n_initial + 1].is_correct = FALSE
    /\ sheet_rows[hist.n_initial + 2].is_correct = TRUE

\* the catalog's rows are in ascending index order
Ascending(df) == \A a, b \in 1..Len(df) : a < b => df[a].index < df[b].index

\* the lowest catalog index that is not in done
LowestNotIn(done) ==
    CHOOSE i \in CatalogIndices \ done : \A j \in CatalogIndices \ done : i <= j

\* C13 (as amended): the pair presented for annotation is the first pair in
\* catalog order whose index is not in completedSet; it is the lowest such
\* index when the catalog's rows are in ascending index order.
C13_PresentsFirstInCatalogOrder ==
    OnForm(State, pairs_df) =>
        /\ PresentedPair \notin completedSet
        /\ PresentedPair = FirstNotIn(completedSet)
        /\ Ascending(pairs_df) => PresentedPair = LowestNotIn(completedSet)

\* pair 2 is presented while pair 1 remains
C13_Witness ==
    /\ CurrentScreen = "ANNOTATING"
    /\ pairs_df = CatalogA
    /\ completedSet = {}
    /\ PresentedPair = 2
    /\ 1 \in CatalogIndices \ completedSet

\* C13 as claimed: the pair presented is the lowest remaining index, in
\* whatever row order the catalog was loaded.
C13_PresentsLowestIndex ==
    OnForm(State, pairs_df) => PresentedPair = LowestNotIn(completedSet)

\* the session is logged in with a privileged id
SuperSession ==
    /\ State.annotator_id # None
    /\ Get(State.annotator_id) \in SUPER_USERS

\* C14 (as amended): a login with a privileged id opens the review browser;
\* while the mode of such a session is "review" the review browser is shown
\* and no row is appended; the mode of such a session becomes "annotate" only
\* through the mode selector.
C14_SuperUserReviewsUntilAnnotateSelected ==
    [][ /\ ( ( /\ last'.op = "login"
               /\ last'.outcome = "ok"
               /\ SuperSession' )
             => /\ State'.mode = "review"
                /\ CurrentScreen' = "SUPER_REVIEW" )
        /\ ( (SuperSession' /\ State'.mode = "review")
             => CurrentScreen' = "SUPER_REVIEW" )
        /\ ( (SuperSession /\ State.mode = "review")
             => sheet_rows' = sheet_rows )
        /\ ( ( /\ SuperSession'
               /\ State'.mode = "annotate"
               /\ ~(SuperSession /\ State.mode = "annotate") )
             => last'.op = "select_mode" ) ]_vars

\* the privileged user is back in the review browser after annotating
C14_Witness ==
    /\ SuperSession
    /\ last.op = "select_mode"
    /\ State.mode = "review"
    /\ CurrentScreen = "SUPER_REVIEW"
    /\ Len(sheet_rows) > hist.n_initial
    /\ sheet_rows[Len(sheet_rows)].annotator_id \in SUPER_USERS

\* C14 as claimed: in a session logged in with a privileged id the
\* annotation interface is never shown and no row is appended for that id.
C14_SuperUserNeverAnnotates ==
    /\ SuperSession => ~InAnnotationFlow
    /\ \A k \in SessionRowPositions : sheet_rows[k].annotator_id \notin SUPER_USERS

\* C17 (as amended): start-over empties completedSet, clears reviewPending,
\* leaves the ledger unchanged and, when the catalog is not empty, returns
\* the session to ANNOTATING on the first catalog pair (with an empty catalog
\* the session stays in ALL_COMPLETE); ALL_COMPLETE is left only by
\* start-over or by a privileged user selecting the review mode.
C17_AllCompleteLeftByUserAction ==
    [][ /\ ( last'.op = "start_over"
             => /\ CurrentScreen = "ALL_COMPLETE"
                /\ completedSet' = {}
                /\ ~reviewPending'
                /\ sheet_rows' = sheet_rows
                /\ IF pairs_df = <<>>
                   THEN CurrentScreen' = "ALL_COMPLETE"
                   ELSE /\ CurrentScreen' = "ANNOTATING"
                        /\ PresentedPair' = pairs_df[1].index )
        /\ ( (CurrentScreen = "ALL_COMPLETE" /\ CurrentScreen' # "ALL_COMPLETE")
             => \/ last'.op = "start_over"
                \/ /\ last'.op = "select_mode"
                   /\ SuperSession
                   /\ CurrentScreen' = "SUPER_REVIEW" ) ]_vars

C17_Witness ==
    /\ last.op = "start_over"
    /\ CurrentScreen = "ANNOTATING"
    /\ completedSet = {}
    /\ pairs_df = CatalogA
    /\ PresentedPair = 2
    /\ Len(sheet_rows) = hist.n_initial + 2

\* C17 as claimed: start-over returns the session to ANNOTATING on the first
\* catalog pair, and ALL_COMPLETE is left by start-over only.
C17_AllCompleteLeftByStartOverOnly ==
    [][ /\ ( last'.op = "start_over"
             => /\ completedSet' = {}
                /\ ~reviewPending'
                /\ sheet_rows' = sheet_rows
                /\ CurrentScreen' = "ANNOTATING"
                /\ PresentedPair' = pairs_df[1].index )
        /\ ( (CurrentScreen = "ALL_COMPLETE" /\ CurrentScreen' # "ALL_COMPLETE")
             => last'.op = "start_over" ) ]_vars

\* C19 (as amended): once completedSet exists, no step other than a login
\* reads the ledger, and a step that is neither a login, a saved submit or
\* follow-up, start-over nor switch-annotator keeps completedSet, less the
\* indices that are not in the catalog once the annotation or instructions
\* page is drawn; a login through the name form reads the ledger whenever
\* there is one, whether or not the id entered is the one logged in.
C19_CacheKeptExceptAtLogin ==
    [][ /\ ( (State.completed_local # None /\ last'.op # "login")
             => ~last'.queried )
        /\ ( ( /\ State.completed_local # None
               /\ last'.op \notin {"login", "start_over", "switch_annotator"}
               /\ last'.outcome # "saved" )
             => /\ State'.completed_local # None
                /\ completedSet' =
                      IF CurrentScreen' = "SUPER_REVIEW" THEN completedSet
                      ELSE completedSet \cap CatalogIndices )
        /\ ( (last'.op = "login" /\ last'.outcome = "ok")
             => last'.queried = (sheet = "Worksheet") ) ]_vars

\* back from the instructions page with a cache that differs from what the
\* ledger holds for the annotator
C19_Witness ==
    /\ last.op = "continue"
    /\ ~last.queried
    /\ sheet = "Worksheet"
    /\ hist.calls_ok
    /\ State.completed_local # None
    /\ completedSet # OwnIndices(Get(State.annotator_id)) \cap CatalogIndices

\* C19 as claimed: a logged-in annotator who confirms the same id again on
\* the instructions page keeps completedSet, and no ledger query is made.
C19_ReloginKeepsCache ==
    [][ ( /\ last'.op = "login"
          /\ last'.outcome = "ok"
          /\ State.completed_local # None
          /\ State'.annotator_id = State.annotator_id )
        => /\ completedSet' = completedSet
           /\ ~last'.queried ]_vars

\* C15: every action of the review browser (a filter or the search changed,
\* previous, next, jump, a note typed, a pair flagged, the flag list cleared,
\* the export) leaves the ledger, completedSet and reviewPending unchanged.
C15_ReviewBrowserLeavesLedgerAndProgress ==
    [][ /\ sheet_rows' = sheet_rows
        /\ State'.completed_local = State.completed_local
        /\ completedSet' = completedSet
        /\ reviewPending' = reviewPending
        /\ State'.snapshot = State.snapshot ]_vars

\* two flags were recorded, the second pair is displayed, over a ledger that holds rows of the
\* privileged id for indices that are not in the catalog
C15_Witness ==
    /\ TableShown
    /\ Len(Get(review.super_flags)) = 2
    /\ Get(review.super_pos) = 1
    /\ sheet = "Worksheet"
    /\ sheet_rows = LedgerUsed
    /\ 99 \in completedSet

\* C16: the flag table holds exactly the most recent flag of each pair index
\* flagged since the last clear, one row per index, in index order; the
\* exported file has the same rows; after a clear with no later flag the
\* table is empty.
C16_FlagTableKeepsLatestPerIndex ==
    review.super_flags # None =>
        LET table == FlagTable(Get(review.super_flags))
            csv == ExportedCsv
        IN /\ { table[k] : k \in 1..Len(table) } = hist.latest
           /\ Len(table) = Cardinality({ f.index : f \in hist.latest })
           /\ \A a, b \in 1..Len(table) : a < b => table[a].index < table[b].index
           /\ (hist.latest = {}) => table = <<>>
           /\ Len(csv) = Len(table) + 1
           /\ \A k \in 1..Len(table) :
                 \E f \in hist.latest :
                    csv[k + 1] = <<f.index, f.A, f.B, f.current_ground_truth,
                                  f.suggested_ground_truth, f.issue_type, f.notes>>

\* a pair was flagged twice, with different suggestions; the later flag is
\* the one in the file offered for download
C16_Witness ==
    /\ TableShown
    /\ Len(Get(review.super_flags)) = 2
    /\ Get(review.super_flags)[1].index = Get(review.super_flags)[2].index
    /\ Get(review.super_flags)[1] # Get(review.super_flags)[2]
    /\ Cardinality(hist.latest) = 1
    /\ ExportedCsv[2][5] = Get(review.super_flags)[2].suggested_ground_truth

\* every index of completedSet is the pair_index of a row of the annotator
\* logged in
OwnedCompleted ==
    State.annotator_id # None =>
        \A i \in completedSet :
            \E k \in 1..Len(sheet_rows) :
                /\ sheet_rows[k].annotator_id = Get(State.annotator_id)
                /\ "pair_index" \in DOMAIN sheet_rows[k]
                /\ StandsFor(sheet_rows[k].pair_index, i)

\* C18: with another annotator's session appending to the shared ledger at
\* any point, an append of the other session adds its row after the rows
\* there are and changes nothing of this session (completedSet, the pair
\* presented); a step of this session keeps every row there is and appends at
\* most one row, under its own id; completedSet holds only indices of the
\* annotator's own rows, and a login takes it from those rows alone.
C18_SessionsIsolated ==
    [][ /\ ( hist'.others # hist.others
             => /\ session_state' = session_state
                /\ completedSet' = completedSet
                /\ CurrentScreen' = CurrentScreen
                /\ (OnForm(State, pairs_df) => PresentedPair' = PresentedPair)
                /\ Len(sheet_rows') = Len(sheet_rows) + 1
                /\ SubSeq(sheet_rows', 1, Len(sheet_rows)) = sheet_rows
                /\ (State.annotator_id # None =>
                       sheet_rows'[Len(sheet_rows')].annotator_id
                           # Get(State.annotator_id)) )
        /\ ( hist'.others = hist.others
             => /\ Len(sheet_rows') \in {Len(sheet_rows), Len(sheet_rows) + 1}
                /\ SubSeq(sheet_rows', 1, Len(sheet_rows)) = sheet_rows
                /\ (Len(sheet_rows') = Len(sheet_rows) + 1 =>
                       sheet_rows'[Len(sheet_rows')].annotator_id
                           = Get(State.annotator_id)) )
        /\ OwnedCompleted'
        /\ ( ( /\ last'.op = "login"
               /\ last'.outcome = "ok"
               /\ last'.ledger_ok
               /\ hist'.others = hist.others
               /\ ~SuperSession' )
             => completedSet' =
                   OwnIndices(Get(State'.annotator_id)) \cap CatalogIndices ) ]_vars

\* the other annotator's row for pair 2, of an incorrect answer with its
\* follow-up, was in the ledger when this annotator logged in; pair 2 was
\* presented all the same and this annotator's row for it follows the other's
C18_Witness ==
    /\ hist.others = 1
    /\ Len(sheet_rows) = 2
    /\ sheet_rows[1].annotator_id = Bobby
    /\ sheet_rows[1].pair_index = IntCell(2)
    /\ ~sheet_rows[1].is_correct
    /\ sheet_rows[2].annotator_id = Alice
    /\ sheet_rows[2].pair_index = IntCell(2)
    /\ State.annotator_id = Some(Alice)
    /\ completedSet = {2}
    /\ PresentedPair = 1

\* C20: a run of ensure_local_progress_initialized that follows another run,
\* with no session action in between, leaves completedSet as the first run
\* left it and reads nothing from the ledger, whatever rows reached the
\* ledger between the two runs; what a run leaves is within the catalog.
C20_ReconcileIdempotent ==
    [][ /\ ( ( /\ last.op = "reconcile"
               /\ last'.op = "reconcile"
               /\ hist'.others = hist.others )
             => /\ State'.completed_local = State.completed_local
                /\ completedSet' = completedSet
                /\ ~last'.queried )
        /\ ( last'.op = "reconcile"
             => /\ State'.completed_local # None
                /\ completedSet' \subseteq CatalogIndices ) ]_vars

\* the first run took {1} from the ledger or from the cache; a row of the
\* same annotator for pair 2, of an incorrect answer, arrived; the second run
\* left {1}
C20_Witness ==
    /\ last.op = "reconcile"
    /\ last.outcome = "again"
    /\ hist.others = 1
    /\ pairs_df = CatalogA
    /\ State.annotator_id = Some(Alice)
    /\ sheet_rows[Len(sheet_rows)].annotator_id = Alice
    /\ sheet_rows[Len(sheet_rows)].pair_index = IntCell(2)
    /\ ~sheet_rows[Len(sheet_rows)].is_correct
    /\ completedSet = {1}

\* the remaining list and the progress count are computed on this page: the
\* annotation page, or the instructions page of a logged-in annotator
ProgressComputed ==
    /\ State.annotator_id # None
    /\ CurrentScreen # "SUPER_REVIEW"

\* C21: whenever the remaining list or the progress count is computed for a
\* logged-in annotator, completedSet exists and is a subset of the catalog's
\* indices, so the completed count is at most the number of catalog rows; a
\* login that reads the ledger keeps none of the indices that are not in the
\* catalog.
C21_CompletedWithinCatalog ==
    ProgressComputed =>
        /\ State.completed_local # None
        /\ completedSet \subseteq CatalogIndices
        /\ Cardinality(completedSet) <= Len(pairs_df)
        /\ Len(remaining(pairs_df, completedSet)) <= Len(pairs_df)

\* alice logged in over a ledger that holds her rows for pair 1 and for
\* index 99, which is in no catalog
C21_Witness ==
    /\ last.op = "login"
    /\ last.outcome = "ok"
    /\ last.ledger_ok
    /\ sheet = "Worksheet"
    /\ sheet_rows = LedgerUsed
    /\ pairs_df = CatalogA
    /\ State.annotator_id = Some(Alice)
    /\ ProgressComputed
    /\ completedSet = {1}
    /\ 99 \in OwnIndices(Alice)

\* the position of the review browser and the size of the filtered view
ReviewPosition == Get(review.super_pos)

ViewSize == Len(view_df(review, pairs_df))

\* C22: whenever the review browser displays a pair (the filtered view is
\* not empty), 0 <= position <= size of the view - 1, after any sequence of
\* filter changes, searches, previous, next and jump; previous moves the
\* position down by exactly one and next up by exactly one within the same
\* view, except that previous at the first position and next at the last
\* leave it unchanged.
C22_ReviewPositionWithinView ==
    /\ [](PairShown => (0 <= ReviewPosition /\ ReviewPosition <= ViewSize - 1))
    /\ [][ /\ ( last'.op = "previous"
                 => /\ view_df(review', pairs_df) = view_df(review, pairs_df)
                    /\ ReviewPosition' =
                          IF ReviewPosition = 0 THEN 0 ELSE ReviewPosition - 1 )
            /\ ( last'.op = "following"
                 => /\ view_df(review', pairs_df) = view_df(review, pairs_df)
                    /\ ReviewPosition' =
                          IF ReviewPosition = ViewSize - 1 THEN ReviewPosition
                          ELSE ReviewPosition + 1 ) ]_vars

\* the user walked to the last of five pairs, then narrowed the view to the
\* two celeba pairs: the position is the last of the two
C22_Witness ==
    /\ pairs_df = CatalogV
    /\ PairShown
    /\ review.dataset_filter = {"celeba"}
    /\ ViewSize = 2
    /\ ReviewPosition = 1
    /\ ShownRow(review, pairs_df).index = 4

\* the positions of the header rows in the worksheet
HeaderPositions == { k \in 1..Len(connect.values) : connect.values[k] = Headers }

\* every connect call has returned, one of them with the sheet
ConnectsReturned ==
    /\ \A p \in Processes : connect.pc[p] \in {"returned_sheet", "returned_none"}
    /\ \E p \in Processes : connect.pc[p] = "returned_sheet"

\* C23: under any interleaving of the connect calls of several processes
\* the worksheet holds at most one header row, and only as its first row;
\* once the calls have returned, one of them with the sheet, it holds exactly
\* one.
C23_HeaderWrittenOnce ==
    /\ Cardinality(HeaderPositions) <= 1
    /\ HeaderPositions \subseteq {1}
    /\ ConnectsReturned => HeaderPositions = {1}

\* C24: whenever reviewPending is true the stored snapshot is of the first
\* remaining pair of the catalog, which is not in completedSet, and on the
\* annotation page that pair is the one presented; this holds through
\* view-instructions, continue, the mode selector, login and
\* switch-annotator.  The row a follow-up persists is therefore for the pair
\* on the screen, under the id of the annotator logged in.
C24_SnapshotIsPresentedPair ==
    /\ [](reviewPending =>
             /\ State.snapshot # None
             /\ State.annotator_id # None
             /\ State.completed_local # None
             /\ ~Get(State.snapshot).is_correct
             /\ Get(State.snapshot).pair_data.index \notin completedSet
             /\ ~(CatalogIndices \subseteq completedSet)
             /\ Get(State.snapshot).pair_data.index = FirstNotIn(completedSet)
             /\ Get(State.snapshot).pair_data = CatalogRow(FirstNotIn(completedSet))
             /\ (InAnnotationFlow =>
                    /\ CurrentScreen = "REVIEWING_INCORRECT"
                    /\ PresentedPair = Get(State.snapshot).pair_data.index))
    /\ [][ (last'.op = "next_pair" /\ last'.outcome = "saved")
            => /\ CurrentScreen = "REVIEWING_INCORRECT"
               /\ Len(sheet_rows') = Len(sheet_rows) + 1
               /\ sheet_rows'[Len(sheet_rows')].pair_index = IntCell(PresentedPair)
               /\ sheet_rows'[Len(sheet_rows')].image_a = CatalogRow(PresentedPair).A
               /\ sheet_rows'[Len(sheet_rows')].annotator_id
                      = Get(State.annotator_id) ]_vars

\* the privileged user answered pair 2 wrongly in annotate mode, went to the
\* review browser and came back: the follow-up for pair 2 is still owed
C24_Witness ==
    /\ last.op = "select_mode"
    /\ last.outcome = "annotate"
    /\ reviewPending
    /\ CurrentScreen = "REVIEWING_INCORRECT"
    /\ pairs_df = CatalogA
    /\ PresentedPair = 2
    /\ Get(State.snapshot).pair_data.index = 2

\* the step appended a row to the ledger
RowAppended == Len(sheet_rows') = Len(sheet_rows) + 1

\* C25 (as amended): while reviewPending stays true nothing is persisted
\* and the snapshot is kept (view-instructions, continue, edits, a rejected
\* or failed follow-up); reviewPending is cleared only by the successful
\* persist of the is_correct = false row of the snapshot, by a login or by
\* switch-annotator, and the last two persist nothing; an is_correct = true
\* row is persisted only while no review is pending.
C25_FollowupOwedUntilLoginOrSwitch ==
    /\ [](reviewPending =>
             <<Get(State.annotator_id), Get(State.snapshot).pair_data.index>>
                 \in Get(hist.owed))
    /\ [][ /\ ( (reviewPending /\ ~reviewPending')
                 => \/ /\ last'.op = "next_pair"
                       /\ last'.outcome = "saved"
                       /\ RowAppended
                       /\ sheet_rows'[Len(sheet_rows')].is_correct = FALSE
                       /\ sheet_rows'[Len(sheet_rows')].annotator_id
                              = Get(State.annotator_id)
                       /\ sheet_rows'[Len(sheet_rows')].pair_index
                              = IntCell(Get(State.snapshot).pair_data.index)
                    \/ /\ last'.op = "login"
                       /\ last'.outcome = "ok"
                       /\ sheet_rows' = sheet_rows
                    \/ /\ last'.op = "switch_annotator"
                       /\ sheet_rows' = sheet_rows )
            /\ ( (reviewPending /\ reviewPending')
                 => /\ sheet_rows' = sheet_rows
                    /\ State'.snapshot = State.snapshot
                    /\ State'.annotator_id = State.annotator_id
                    /\ hist'.owed = hist.owed )
            /\ ( (RowAppended /\ sheet_rows'[Len(sheet_rows')].is_correct = TRUE)
                 => ~reviewPending ) ]_vars

\* alice answered pair 2 wrongly and saw its ground truth; she opened the
\* instructions and confirmed her id again; pair 2 was presented anew and
\* her correct answer was saved, the follow-up still not written
C25_Witness ==
    /\ last.op = "submit"
    /\ last.outcome = "saved"
    /\ <<Alice, 2>> \in Get(hist.owed)
    /\ State.annotator_id = Some(Alice)
    /\ sheet_rows[Len(sheet_rows)].annotator_id = Alice
    /\ sheet_rows[Len(sheet_rows)].pair_index = IntCell(2)
    /\ sheet_rows[Len(sheet_rows)].is_correct = TRUE
    /\ \A k \in 1..Len(sheet_rows) : sheet_rows[k].is_correct = TRUE

\* C25 as claimed: once the ground truth of a pair was shown to an annotator,
\* no is_correct = true row is persisted for that annotator and pair before
\* the follow-up is, and reviewPending is cleared only by the successful
\* persist of the is_correct = false row.
C25_FollowupOwedBeforeAdvancing ==
    [][ /\ ( (RowAppended /\ sheet_rows'[Len(sheet_rows')].is_correct = TRUE)
             => <<sheet_rows'[Len(sheet_rows')].annotator_id,
                  sheet_rows'[Len(sheet_rows')].pair_index.v>>
                    \notin Get(hist.owed) )
        /\ ( (reviewPending /\ ~reviewPending')
             => /\ last'.op = "next_pair"
                /\ last'.outcome = "saved"
                /\ RowAppended
                /\ sheet_rows'[Len(sheet_rows')].is_correct = FALSE ) ]_vars

\* C26: whenever a page other than the instructions page is shown,
\* annotator_id is set, is stored trimmed with at least the minimum length,
\* and is_super is true exactly when the id is a privileged one; so the
\* review browser is shown to privileged ids only, whoever was logged in
\* before in the same browser session.
C26_IdentityConsistentOffInstructions ==
    CurrentScreen # "INSTRUCTIONS" =>
        /\ State.annotator_id # None
        /\ TrimmedLen(Get(State.annotator_id)) >= MIN_NAME_LENGTH
        /\ TrimmedLen(Get(State.annotator_id)) = Len(Get(State.annotator_id))
        /\ State.is_super = (Get(State.annotator_id) \in SUPER_USERS)
        /\ (CurrentScreen = "SUPER_REVIEW" =>
               Get(State.annotator_id) \in SUPER_USERS)
        /\ (Get(State.annotator_id) \notin SUPER_USERS =>
               /\ InAnnotationFlow
               /\ State.mode = "annotate")

\* the review browser was drawn in this browser session (for the privileged
\* user); she switched to annotate and pressed Switch Annotator; alice, who
\* logged in next, is on the annotation page
C26_Witness ==
    /\ review.super_flags # None
    /\ last.op = "login"
    /\ last.outcome = "ok"
    /\ State.annotator_id = Some(Alice)
    /\ ~State.is_super
    /\ CurrentScreen = "ANNOTATING"

\* C27: with a catalog that is not empty and a ledger whose appends go
\* through eventually, an annotator who keeps submitting valid decisions,
\* explanations and reflections, and neither starts over, logs in nor
\* switches, reaches ALL_COMPLETE, and from some point on every pair of
\* the catalog is in completedSet; on the way completedSet never loses an
\* element, every saved submit or follow-up appends one row and adds
\* exactly one index to it, and no other step changes it.
C27_AnnotatorReachesAllComplete ==
    /\ <>(CurrentScreen = "ALL_COMPLETE")
    /\ <>[](CatalogIndices \subseteq completedSet)
    /\ [][ /\ completedSet \subseteq completedSet'
            /\ ( last'.outcome = "saved"
                 => /\ RowAppended
                    /\ Cardinality(completedSet') = Cardinality(completedSet) + 1 )
            /\ ( RowAppended => last'.outcome = "saved" )
            /\ ( ~RowAppended => completedSet' = completedSet ) ]_vars

\* both pairs of the Scenario A catalog are done, one with a reflection,
\* after an append that failed
C27_Witness ==
    /\ CurrentScreen = "ALL_COMPLETE"
    /\ pairs_df = CatalogA
    /\ completedSet = {1, 2}
    /\ Len(sheet_rows) = hist.n_initial + 2
    /\ ~hist.calls_ok
    /\ \E k \in SessionRowPositions : sheet_rows[k].is_correct = FALSE

====
